---------------------------- MODULE Spec2Model ----------------------------
(***************************************************************************)
(* Weekly-plan system: period registry (crud.ensure_period,                *)
(* crud.ensure_month_periods), workday calculator (utils.workdays_in_range, *)
(* utils.workday_range), plan-hours aggregation (crud.sum_plan_hours,      *)
(* crud.get_plan_item_stats, emailer._item_total_hours), weekly plans and  *)
(* plan templates, the mail scheduler (scheduler.try_auto_send_week_plans) *)
(* and the holiday calendar (holidays.load_calendar).                      *)
(*                                                                         *)
(* Dates are proleptic Gregorian ordinals, as datetime.date.toordinal()    *)
(* gives them (0001-01-01 is 1).  Hours are counted in hundredths of an    *)
(* hour; the rows hold the floats that were written, and a session reads   *)
(* them through the Numeric(6, 1) columns in whole tenths.                 *)
(***************************************************************************)
EXTENDS Integers, Sequences, FiniteSets, TLC

VARIABLES
    week_period,   \* rows of table week_period
    proc,          \* per request thread: position inside ensure_period / ensure_month_periods
    returned,      \* history: ids that completed ensure_period(d) calls returned, per date d
    calls,         \* number of calls started so far
    wd_call,       \* the last call of workdays_in_range / workday_range: arguments and result
    weekly_plan,   \* rows of table weekly_plan
    plan_item,     \* rows of table plan_item, each with its plan_item_detail rows
    hours_call,    \* the last read of plan hours: operation, arguments and result
    cal_call,      \* the last call of the ISO-week functions of utils: argument and result
    plan_req,      \* per request thread: position inside ensure_weekly_plan / team_detail
    plan_template, \* rows of table plan_template, each with its items and their details
    op_call,       \* the last call of a plan or item operation: arguments and outcome
    user_cfg,      \* the files data/email_users/<user id>.json
    clock,         \* the scheduler's time: the current ISO week and whether the send time has come
    tick,          \* the running try_auto_send_week_plans, its locals and position
    attempts,      \* history: number of send_plan_email calls of the scheduler per user and period key
    skipped,       \* history: the (user, period) whose key a tick wrote after it found no plan to send
    web_req,       \* per user: the running email-config save of the web layer
    cal_files,     \* the calendar sources under data/: calendar.json, holidays.txt, workdays.txt
    hol_call       \* the last holiday sync or load_calendar: outcome and result

periodVars == <<week_period, proc, returned, calls>>
workdayVars == <<wd_call>>
hoursVars == <<weekly_plan, plan_item, hours_call>>
calendarVars == <<cal_call>>
planVars == <<plan_req>>
templateVars == <<plan_template, op_call>>
schedVars == <<user_cfg, clock, tick, attempts, skipped, web_req>>
holidayVars == <<cal_files, hol_call>>

\* the variables the first three specifications leave alone
extVars == <<calendarVars, planVars, templateVars, schedVars, holidayVars>>

----------------------------------------------------------------------------
(* Bounds *)

NumProcs == 2
MaxCalls == 3

----------------------------------------------------------------------------
(* datetime.date arithmetic *)

IsLeap(y) == (y % 4 = 0) /\ ((y % 100 /= 0) \/ (y % 400 = 0))

DaysBeforeYear(y) == (y - 1) * 365 + ((y - 1) \div 4) - ((y - 1) \div 100) + ((y - 1) \div 400)

DaysInMonth(y, m) ==
    IF m = 2 THEN (IF IsLeap(y) THEN 29 ELSE 28)
    ELSE IF m \in {4, 6, 9, 11} THEN 30 ELSE 31

RECURSIVE DaysBeforeMonth(_, _)
DaysBeforeMonth(y, m) == IF m = 1 THEN 0 ELSE DaysBeforeMonth(y, m - 1) + DaysInMonth(y, m - 1)

\* dt.date(y, m, d) as an ordinal
Ymd2Ord(y, m, d) == DaysBeforeYear(y) + DaysBeforeMonth(y, m) + d

\* date.year of an ordinal, by 400-, 100-, 4- and 1-year cycles
Ord2Year(n) ==
    LET n0 == n - 1
        n400 == n0 \div 146097
        r400 == n0 % 146097
        n100 == r400 \div 36524
        r100 == r400 % 36524
        n4 == r100 \div 1461
        r4 == r100 % 1461
        n1 == r4 \div 365
        year == n400 * 400 + 1 + n100 * 100 + n4 * 4 + n1
    IN IF n1 = 4 \/ n100 = 4 THEN year - 1 ELSE year

\* date.month, date.day of an ordinal
Ord2Month(n) ==
    LET y == Ord2Year(n)
        k == n - DaysBeforeYear(y)
    IN CHOOSE m \in 1..12 : DaysBeforeMonth(y, m) < k /\ k <= DaysBeforeMonth(y, m) + DaysInMonth(y, m)

Ord2Day(n) ==
    LET y == Ord2Year(n)
    IN n - DaysBeforeYear(y) - DaysBeforeMonth(y, Ord2Month(n))

\* date.isoweekday(): Monday is 1, Sunday is 7
IsoWeekday(n) == ((n + 6) % 7) + 1

\* Monday of ISO week 1 of year y: the week holding the year's first Thursday
IsoWeek1Monday(y) ==
    LET firstday == Ymd2Ord(y, 1, 1)
        firstweekday == (firstday + 6) % 7
        week1monday == firstday - firstweekday
    IN IF firstweekday > 3 THEN week1monday + 7 ELSE week1monday

\* date.isocalendar(): <<ISO year, ISO week, ISO weekday>>
IsoCalendar(n) ==
    LET year == Ord2Year(n)
        w1 == IsoWeek1Monday(year)
        week == (n - w1) \div 7
        day == (n - w1) % 7
    IN IF n < w1
       THEN LET w0 == IsoWeek1Monday(year - 1)
            IN <<year - 1, ((n - w0) \div 7) + 1, ((n - w0) % 7) + 1>>
       ELSE IF week >= 52 /\ n >= IsoWeek1Monday(year + 1)
            THEN <<year + 1, 1, day + 1>>
            ELSE <<year, week + 1, day + 1>>

----------------------------------------------------------------------------
(* utils.py *)

\* an iso_week_period that would number the week within the calendar year of the date
iso_week_period_calendar_year(for_date) ==
    LET cal == IsoCalendar(for_date)
        monday == for_date - (cal[3] - 1)
        sunday == monday + 6
    IN <<Ord2Year(for_date), cal[2], monday, sunday>>

\* iso_week_period(for_date): <<iso_year, iso_week, monday, sunday>>
iso_week_period(for_date) ==
    LET cal == IsoCalendar(for_date)
        monday == for_date - (cal[3] - 1)
        sunday == monday + 6
    IN <<cal[1], cal[2], monday, sunday>>

\* absent (None) first / last date of workday_range
NoDate == 0

RECURSIVE WorkdaysHolidaysFirstFrom(_, _, _, _)
WorkdaysHolidaysFirstFrom(cur, end_date, holidays, workdays) ==
    IF cur > end_date THEN <<>>
    ELSE (IF cur \in holidays THEN <<>>
          ELSE IF cur \in workdays \/ IsoWeekday(cur) <= 5 THEN <<cur>>
          ELSE <<>>) \o WorkdaysHolidaysFirstFrom(cur + 1, end_date, holidays, workdays)

workdays_in_range_holidays_first(start_date, end_date, holidays, workdays) ==
    WorkdaysHolidaysFirstFrom(start_date, end_date, holidays, workdays)

\* the loop of workdays_in_range (lines 34-39) from cur on
RECURSIVE WorkdaysFrom(_, _, _, _)
WorkdaysFrom(cur, end_date, holidays, workdays) ==
    IF cur > end_date THEN <<>>
    ELSE (IF cur \in workdays THEN <<cur>>
          ELSE IF IsoWeekday(cur) <= 5 /\ cur \notin holidays THEN <<cur>>
          ELSE <<>>) \o WorkdaysFrom(cur + 1, end_date, holidays, workdays)

\* workdays_in_range(start_date, end_date, holidays=, workdays=); None is the empty set
workdays_in_range(start_date, end_date, holidays, workdays) ==
    WorkdaysFrom(start_date, end_date, holidays, workdays)

workday_range_span(start_date, end_date, holidays, workdays) ==
    LET days == workdays_in_range(start_date, end_date, holidays, workdays)
    IN IF days = <<>> THEN <<NoDate, NoDate, 0>>
       ELSE <<days[1], days[Len(days)], days[Len(days)] - days[1] + 1>>

\* workday_range(start_date, end_date, holidays=, workdays=): <<first, last, count>>
workday_range(start_date, end_date, holidays, workdays) ==
    LET days == workdays_in_range(start_date, end_date, holidays, workdays)
    IN IF days = <<>> THEN <<NoDate, NoDate, 0>>
       ELSE <<days[1], days[Len(days)], Len(days)>>

----------------------------------------------------------------------------
(* Period registry: crud.ensure_period, crud.ensure_month_periods *)

Procs == 1..NumProcs

\* Dates that requests ask periods for: Thu 2024-02-01 (ISO week Mon
\* 2024-01-29 .. Sun 2024-02-04, spanning January and February) and
\* Mon 2024-12-30 (ISO week 2025-W01, its Thursday in January 2025).
PeriodDates == { Ymd2Ord(2024, 2, 1), Ymd2Ord(2024, 12, 30) }

\* (year, month) pairs that requests ask the month's periods for: January
\* 2024 has days in five ISO weeks, the last of them (Mon 2024-01-29) with
\* its Thursday in February
PeriodMonths == { <<2024, 1>> }

\* Mondays of rows an earlier release left behind: it stored the month of
\* start_date, and only the sqlite start-up migration rewrites such rows.
LegacyMondays == { Ymd2Ord(2024, 1, 29) }

\* the anchor month: (start_date + dt.timedelta(days=3)).month
AnchorMonthOfMonday(start_date) == Ord2Month(start_date)
AnchorMonth(start_date) == Ord2Month(start_date + 3)

\* select(WeekPeriod).where(year == y, week_no == w)
LookupSwappedColumns(rows, y, w) == { r \in rows : r.year = w /\ r.week_no = y }
Lookup(rows, y, w) == { r \in rows : r.year = y /\ r.week_no = w }

\* UniqueConstraint("year", "week_no"): an INSERT of (y, w) is refused
NoUniqueConstraint(rows, y, w) == FALSE
UniqueViolation(rows, y, w) == \E r \in rows : r.year = y /\ r.week_no = w

\* INTEGER PRIMARY KEY: the next rowid
NextId(rows) == IF rows = {} THEN 1 ELSE (CHOOSE i \in { r.id : r \in rows } : \A r \in rows : r.id <= i) + 1

\* a row of week_period
PeriodRow(id, for_date) ==
    LET w == iso_week_period(for_date)
    IN [id |-> id, year |-> w[1], month |-> AnchorMonth(w[3]), week_no |-> w[2],
        start_date |-> w[3], end_date |-> w[4]]

\* the rows of the earlier release for the Mondays L, month = start_date's month
LegacyRows(L) ==
    { [id |-> Cardinality({ k \in L : k <= m }), year |-> iso_week_period(m)[1],
       month |-> Ord2Month(m), week_no |-> iso_week_period(m)[2],
       start_date |-> m, end_date |-> m + 6] : m \in L }

RowById(rows, id) == CHOOSE r \in rows : r.id = id

RECURSIVE SortedById(_, _)
SortedById(rows, ids) ==
    IF ids = {} THEN <<>>
    ELSE LET first == CHOOSE i \in ids : \A j \in ids : i <= j
         IN <<first>> \o SortedById(rows, ids \ {first})

\* sorted(periods_by_id.values(), key=lambda x: x.start_date), as a sequence of ids
RECURSIVE SortedByStartDate(_, _)
SortedByStartDate(rows, ids) ==
    IF ids = {} THEN <<>>
    ELSE LET first == CHOOSE i \in ids : \A j \in ids : RowById(rows, i).start_date <= RowById(rows, j).start_date
         IN <<first>> \o SortedByStartDate(rows, ids \ {first})

\* a request thread outside any call
Resting == {"idle", "returned", "raised"}

Idle ==
    [pc |-> "idle", op |-> "none", for_date |-> 0, year |-> 0, week_no |-> 0, start_date |-> 0, end_date |-> 0,
     existing |-> 0, existing_month |-> 0,
     seen |-> {}, created |-> FALSE, result |-> 0, result_month |-> 0,
     monday |-> 0, last_day |-> 0, acc |-> {}, result_list |-> <<>>]

\* no call of the workday calculator yet
NoWorkdayCall ==
    [op |-> "none", start_date |-> NoDate, end_date |-> NoDate, holidays |-> {}, workdays |-> {},
     days |-> <<>>, range |-> <<>>]

\* no read of plan hours yet
NoHoursCall == [op |-> "none", arg |-> 0, value |-> 0]

\* a specification holds the variables of the other parts at these values
PeriodUnused ==
    /\ week_period = {}
    /\ proc = [p \in Procs |-> Idle]
    /\ returned = [d \in PeriodDates |-> {}]
    /\ calls = 0
WorkdayUnused == wd_call = NoWorkdayCall
HoursUnused == weekly_plan = {} /\ plan_item = {} /\ hours_call = NoHoursCall
CalendarUnused == cal_call = <<>>
PlanUnused == plan_req = <<>>
TemplateUnused == plan_template = {} /\ op_call = <<>>
SchedUnused ==
    user_cfg = <<>> /\ clock = <<>> /\ tick = <<>> /\ attempts = <<>> /\ skipped = <<>> /\ web_req = <<>>
HolidayUnused == cal_files = <<>> /\ hol_call = <<>>
ExtUnused == CalendarUnused /\ PlanUnused /\ TemplateUnused /\ SchedUnused /\ HolidayUnused

InitPeriod ==
    /\ \E L \in SUBSET LegacyMondays : week_period = LegacyRows(L)
    /\ proc = [p \in Procs |-> Idle]
    /\ returned = [d \in PeriodDates |-> {}]
    /\ calls = 0
    /\ wd_call = NoWorkdayCall
    /\ weekly_plan = {}
    /\ plan_item = {}
    /\ hours_call = NoHoursCall
    /\ ExtUnused

\* api.ensure_period -> crud.ensure_period(db, d): line 320, the locals year, week_no, start_date
CallEnsurePeriod(p, d) ==
    /\ proc[p].pc \in Resting
    /\ calls < MaxCalls
    /\ calls' = calls + 1
    /\ proc' = [proc EXCEPT ![p] = [Idle EXCEPT !.pc = "select", !.op = "ensure_period",
                                                !.for_date = d, !.seen = returned[d],
                                                !.year = iso_week_period(d)[1],
                                                !.week_no = iso_week_period(d)[2],
                                                !.start_date = iso_week_period(d)[3],
                                                !.end_date = iso_week_period(d)[4]]]
    /\ UNCHANGED <<week_period, returned, workdayVars, hoursVars, extVars>>

\* crud.ensure_month_periods(db, year, month): lines 343-347, up to the first ensure_period
CallEnsureMonthPeriods(p, ym) ==
    LET first_day == Ymd2Ord(ym[1], ym[2], 1)
        last_day == Ymd2Ord(ym[1], ym[2], DaysInMonth(ym[1], ym[2]))
        monday == first_day - (IsoWeekday(first_day) - 1)
    IN /\ proc[p].pc \in Resting
       /\ calls < MaxCalls
       /\ calls' = calls + 1
       /\ proc' = [proc EXCEPT ![p] =
                     IF monday <= last_day
                     THEN [Idle EXCEPT !.pc = "select", !.op = "ensure_month_periods",
                                       !.for_date = monday, !.monday = monday, !.last_day = last_day,
                                       !.year = iso_week_period(monday)[1],
                                       !.week_no = iso_week_period(monday)[2],
                                       !.start_date = iso_week_period(monday)[3],
                                       !.end_date = iso_week_period(monday)[4]]
                     ELSE [Idle EXCEPT !.pc = "returned", !.op = "ensure_month_periods"]]
       /\ UNCHANGED <<week_period, returned, workdayVars, hoursVars, extVars>>

\* ensure_period line 321: the SELECT by (year, week_no)
Select(p) ==
    LET found == Lookup(week_period, proc[p].year, proc[p].week_no)
    IN /\ proc[p].pc = "select"
       /\ IF found /= {}
          THEN LET e == CHOOSE r \in found : TRUE
               IN proc' = [proc EXCEPT ![p].pc = "update", ![p].existing = e.id,
                                       ![p].existing_month = e.month]
          ELSE proc' = [proc EXCEPT ![p].pc = "insert"]
       /\ UNCHANGED <<week_period, returned, calls, workdayVars, hoursVars, extVars>>

\* what follows a return of ensure_period with row id and its month:
\* back in api.ensure_period, or in the loop of ensure_month_periods (lines 347-351)
AfterEnsurePeriod(p, rows, id, month, created) ==
    IF proc[p].op = "ensure_period"
    THEN /\ proc' = [proc EXCEPT ![p].pc = "returned", ![p].result = id,
                                 ![p].result_month = month, ![p].created = created]
         /\ returned' = [returned EXCEPT ![proc[p].for_date] = @ \cup {id}]
    ELSE LET acc == proc[p].acc \cup {id}
             monday == proc[p].monday + 7
         IN /\ returned' = returned
            /\ IF monday <= proc[p].last_day
               THEN proc' = [proc EXCEPT ![p].pc = "select", ![p].for_date = monday,
                                         ![p].monday = monday, ![p].acc = acc,
                                         ![p].year = iso_week_period(monday)[1],
                                         ![p].week_no = iso_week_period(monday)[2],
                                         ![p].start_date = iso_week_period(monday)[3],
                                         ![p].end_date = iso_week_period(monday)[4],
                                         ![p].existing = 0, ![p].existing_month = 0]
               ELSE proc' = [proc EXCEPT ![p].pc = "returned", ![p].acc = acc,
                                         ![p].monday = monday,
                                         ![p].result_list = SortedByStartDate(rows, acc)]

\* crud._migrate_week_period_month at the start of the process, before any
\* request (ensure_schema runs it for sqlite only): every row's month set to its anchor month
MigrateWeekPeriodMonth ==
    /\ calls = 0
    /\ \E r \in week_period : r.month /= AnchorMonth(r.start_date)
    /\ week_period' = { [r EXCEPT !.month = AnchorMonth(r.start_date)] : r \in week_period }
    /\ UNCHANGED <<proc, returned, calls, workdayVars, hoursVars, extVars>>

UpdateMonthOfDate(p) ==
    LET month == Ord2Month(proc[p].for_date)
        id == proc[p].existing
        rows == { IF r.id = id THEN [r EXCEPT !.month = month] ELSE r : r \in week_period }
    IN /\ proc[p].pc = "update"
       /\ week_period' = rows
       /\ AfterEnsurePeriod(p, rows, id, month, FALSE)
       /\ UNCHANGED <<calls, workdayVars, hoursVars, extVars>>

\* ensure_period lines 322-328: the row exists; correct its month when the loaded one differs
UpdateMonth(p) ==
    LET month == AnchorMonth(proc[p].start_date)
        id == proc[p].existing
        rows == IF proc[p].existing_month /= month
                THEN { IF r.id = id THEN [r EXCEPT !.month = month] ELSE r : r \in week_period }
                ELSE week_period
    IN /\ proc[p].pc = "update"
       /\ week_period' = rows
       /\ AfterEnsurePeriod(p, rows, id,
                            IF proc[p].existing_month /= month THEN RowById(rows, id).month
                            ELSE proc[p].existing_month, FALSE)
       /\ UNCHANGED <<calls, workdayVars, hoursVars, extVars>>

\* ensure_period lines 329-339: INSERT and commit; a (year, week_no) already
\* there makes the commit raise IntegrityError, which nothing catches
Insert(p) ==
    LET row == [id |-> NextId(week_period), year |-> proc[p].year,
                month |-> AnchorMonth(proc[p].start_date), week_no |-> proc[p].week_no,
                start_date |-> proc[p].start_date, end_date |-> proc[p].end_date]
    IN /\ proc[p].pc = "insert"
       /\ IF UniqueViolation(week_period, row.year, row.week_no)
          THEN /\ proc' = [proc EXCEPT ![p].pc = "raised"]
               /\ UNCHANGED <<week_period, returned, workdayVars, hoursVars, extVars>>
          ELSE /\ week_period' = week_period \cup {row}
               /\ AfterEnsurePeriod(p, week_period \cup {row}, row.id, row.month, TRUE)
       /\ UNCHANGED <<calls, workdayVars, hoursVars, extVars>>

NextPeriod ==
    \/ MigrateWeekPeriodMonth
    \/ \E p \in Procs :
        \/ \E d \in PeriodDates : CallEnsurePeriod(p, d)
        \/ \E ym \in PeriodMonths : CallEnsureMonthPeriods(p, ym)
        \/ Select(p)
        \/ UpdateMonth(p)
        \/ Insert(p)

vars == <<periodVars, workdayVars, hoursVars, extVars>>

SpecPeriod == InitPeriod /\ [][NextPeriod]_vars

----------------------------------------------------------------------------
(* Period registry: properties *)

\* Monday of the ISO week of date d, and the month of that week's Thursday
MondayOf(d) == d - (IsoWeekday(d) - 1)
ThursdayMonth(d) == Ord2Month(MondayOf(d) + 3)

\* C1: a call ensure_period(d) that starts after an earlier ensure_period(d)
\* has returned (whatever other calls ran in between) returns too, with the
\* id the earlier call returned, and inserts no row.
C1_EnsurePeriodIdempotent ==
    /\ \A d \in PeriodDates : Cardinality(returned[d]) <= 1
    /\ \A p \in Procs :
         (proc[p].op = "ensure_period" /\ proc[p].seen /= {}) =>
            /\ proc[p].pc \notin {"insert", "raised"}
            /\ proc[p].pc = "returned" => (proc[p].result \in proc[p].seen /\ ~proc[p].created)

\* a second call for a date has returned, after three calls in all
C1_Witness ==
    \E p \in Procs :
        /\ proc[p].op = "ensure_period" /\ proc[p].pc = "returned"
        /\ proc[p].seen = {proc[p].result}
        /\ calls = 3

\* C2: at most one week_period row per (year, week_no), in every state of
\* every interleaving of ensure_period and ensure_month_periods calls.
C2_UniqueYearWeek ==
    \A r1, r2 \in week_period :
        (r1.year = r2.year /\ r1.week_no = r2.week_no) => r1 = r2

\* an ensure_period call raced an ensure_month_periods call to the same week:
\* one of the two was refused by the constraint
C2_Witness ==
    \E p, q \in Procs :
        /\ proc[p].pc = "raised"
        /\ proc[p].op /= proc[q].op
        /\ proc[q].op /= "none"

\* C3: no ensure_period call ends with the uniqueness violation; the call
\* that loses the insert race re-queries and returns the winner's row.
C3_RaceRecovered ==
    \A p \in Procs : proc[p].pc /= "raised"

WeeksTouching(last_day) ==
    { MondayOf(d) : d \in Ymd2Ord(Ord2Year(last_day), Ord2Month(last_day), 1)..last_day }

----------------------------------------------------------------------------
(* Workday calculator: calls of utils.workdays_in_range and utils.workday_range *)

\* the dates of the calls: WorkdayDays days from Mon 2024-01-01 on
WorkdayDays == 7
WorkdayWindow == Ymd2Ord(2024, 1, 1)..(Ymd2Ord(2024, 1, 1) + WorkdayDays - 1)

\* dates the override sets of calendar.json are drawn from
HolidayDates == { Ymd2Ord(2024, 1, 1), Ymd2Ord(2024, 1, 3), Ymd2Ord(2024, 1, 6) }
WorkdayDates == { Ymd2Ord(2024, 1, 1), Ymd2Ord(2024, 1, 6), Ymd2Ord(2024, 1, 7) }

\* the arguments of the calls of one behaviour
InitWorkday ==
    /\ week_period = {}
    /\ proc = [p \in Procs |-> Idle]
    /\ returned = [d \in PeriodDates |-> {}]
    /\ calls = 0
    /\ \E s, e \in WorkdayWindow : \E h \in SUBSET HolidayDates : \E w \in SUBSET WorkdayDates :
          wd_call = [NoWorkdayCall EXCEPT !.start_date = s, !.end_date = e,
                                          !.holidays = h, !.workdays = w]
    /\ weekly_plan = {}
    /\ plan_item = {}
    /\ hours_call = NoHoursCall
    /\ ExtUnused

CallWorkdaysInRange ==
    /\ wd_call' = [wd_call EXCEPT
                     !.op = "workdays_in_range",
                     !.days = workdays_in_range(wd_call.start_date, wd_call.end_date,
                                                wd_call.holidays, wd_call.workdays),
                     !.range = <<>>]
    /\ UNCHANGED <<periodVars, hoursVars, extVars>>

CallWorkdayRange ==
    /\ wd_call' = [wd_call EXCEPT
                     !.op = "workday_range",
                     !.days = <<>>,
                     !.range = workday_range(wd_call.start_date, wd_call.end_date,
                                             wd_call.holidays, wd_call.workdays)]
    /\ UNCHANGED <<periodVars, hoursVars, extVars>>

NextWorkday ==
    \/ CallWorkdaysInRange
    \/ CallWorkdayRange

SpecWorkday == InitWorkday /\ [][NextWorkday]_vars

SeqElems(q) == { q[i] : i \in 1..Len(q) }

\* the day-by-day rule: an explicit workday, or Monday..Friday and no holiday
IsEffectiveWorkday(d, holidays, workdays) ==
    d \in workdays \/ (IsoWeekday(d) \in 1..5 /\ d \notin holidays)

\* C5: workdays_in_range returns exactly the days of [start, end] that are
\* explicit workdays or (Monday..Friday and no holiday), strictly ascending:
\* a date in both override sets is included, a weekend day that is no
\* explicit workday is excluded, and start > end gives the empty sequence.
C5_WorkdaysInRange ==
    wd_call.op = "workdays_in_range" =>
        LET c == wd_call
            days == c.days
        IN /\ SeqElems(days) = { d \in c.start_date..c.end_date : IsEffectiveWorkday(d, c.holidays, c.workdays) }
           /\ \A i, j \in 1..Len(days) : i < j => days[i] < days[j]
           /\ \A d \in c.start_date..c.end_date :
                /\ (d \in c.workdays /\ d \in c.holidays) => d \in SeqElems(days)
                /\ (IsoWeekday(d) \in {6, 7} /\ d \notin c.workdays) => d \notin SeqElems(days)
           /\ c.start_date > c.end_date => days = <<>>

\* the call of the specification's example, with 2024-01-01 moreover in both
\* override sets: 2024-01-01 .. 2024-01-07, holidays {01-01, 01-03}, workdays {01-01, 01-06}
C5_Witness ==
    /\ wd_call.op = "workdays_in_range"
    /\ wd_call.holidays = { Ymd2Ord(2024, 1, 1), Ymd2Ord(2024, 1, 3) }
    /\ wd_call.workdays = { Ymd2Ord(2024, 1, 1), Ymd2Ord(2024, 1, 6) }
    /\ wd_call.days = << Ymd2Ord(2024, 1, 1), Ymd2Ord(2024, 1, 2), Ymd2Ord(2024, 1, 4),
                         Ymd2Ord(2024, 1, 5), Ymd2Ord(2024, 1, 6) >>

\* C6: workday_range returns <<first, last, count>> with count the length of
\* the workdays_in_range sequence of the same arguments and first, last its
\* least and greatest date; it is <<None, None, 0>> exactly when the sequence is empty.
C6_WorkdayRange ==
    wd_call.op = "workday_range" =>
        LET c == wd_call
            days == workdays_in_range(c.start_date, c.end_date, c.holidays, c.workdays)
            r == c.range
        IN /\ Len(r) = 3
           /\ r[3] = Len(days)
           /\ days /= <<>> =>
                /\ r[1] \in SeqElems(days) /\ \A d \in SeqElems(days) : r[1] <= d
                /\ r[2] \in SeqElems(days) /\ \A d \in SeqElems(days) : d <= r[2]
           /\ (r = <<NoDate, NoDate, 0>>) <=> (days = <<>>)

\* the call 2024-01-01 .. 2024-01-07, holidays {01-01, 01-03}, workdays {01-06}:
\* four workdays, the first 01-02 and the last 01-06, five days apart
C6_Witness ==
    /\ wd_call.op = "workday_range"
    /\ wd_call.holidays = { Ymd2Ord(2024, 1, 1), Ymd2Ord(2024, 1, 3) }
    /\ wd_call.workdays = { Ymd2Ord(2024, 1, 6) }
    /\ wd_call.range = << Ymd2Ord(2024, 1, 2), Ymd2Ord(2024, 1, 6), 4 >>

----------------------------------------------------------------------------
(* Plan hours: emailer._item_total_hours, crud.sum_plan_hours, crud.get_plan_item_stats *)

\* Optional[float]: None is the empty tuple, a value v the tuple <<v>>
None == <<>>
H(v) == <<v>>

\* Python truth of an Optional[float]: None and 0 are false
Truthy(x) == x /= None /\ x[1] /= 0

\* float(x or 0)
OrZero(x) == IF Truthy(x) THEN x[1] ELSE 0

\* 2^n % m
RECURSIVE Pow2Mod(_, _)
Pow2Mod(n, m) ==
    IF n = 0 THEN 1 % m
    ELSE LET half == Pow2Mod(n \div 2, m)
         IN (half * half * (IF n % 2 = 1 THEN 2 ELSE 1)) % m

\* the binary exponent e of the hundredths k > 0: 2^e <= k/100 < 2^(e+1)
RECURSIVE FloatExponent(_, _)
FloatExponent(k, e) ==
    IF k >= 200 THEN FloatExponent(k \div 2, e + 1)
    ELSE IF k < 100 THEN FloatExponent(2 * k, e - 1)
    ELSE e

\* the float of k/100 is the multiple of 2^(e-52) nearest to k/100; the sign
\* of (float - k/100) follows from the remainder of k * 2^(52-e) by 100
FloatError(k) ==
    IF k = 0 THEN 0
    ELSE LET r == ((k % 100) * Pow2Mod(52 - FloatExponent(k, 0), 100)) % 100
         IN IF r = 0 THEN 0 ELSE IF r < 50 THEN -1 ELSE 1

\* the float of k/100 correctly rounded to one decimal, as round(x, 1) and
\* "%.1f" % x compute it: the tenth nearest to the binary value of the float,
\* an exact tie to the even tenth
FloatToTenth(k) ==
    LET q == k \div 10
        r == k % 10
        err == FloatError(k)
        up == \/ r > 5
              \/ r = 5 /\ err > 0
              \/ r = 5 /\ err = 0 /\ q % 2 = 1
    IN IF up THEN (q + 1) * 10 ELSE q * 10

\* round(x, 1) of a float, in hundredths
Round1(x) == FloatToTenth(x)

\* a Numeric(6, 1) column as the session reads it: SQLite keeps the float
\* that was written, and the column type returns it formatted to one decimal
NumericRead(x) == IF x = None THEN None ELSE H(FloatToTenth(x[1]))

RECURSIVE LoadDetails(_)
LoadDetails(details) ==
    IF details = <<>> THEN <<>>
    ELSE << [Head(details) EXCEPT !.hours = NumericRead(@)] >> \o LoadDetails(Tail(details))

\* the PlanItem objects a select loads from the rows, details with them
LoadItem(row) == [row EXCEPT !.estimated_hours = NumericRead(@), !.details = LoadDetails(@)]
LoadItems(rows) == { LoadItem(row) : row \in rows }

\* for d in details: if d.hours is None: continue; total += float(d.hours)
RECURSIVE SumDetailHours(_)
SumDetailHours(details) ==
    IF details = <<>> THEN 0
    ELSE (IF Head(details).hours = None THEN 0 ELSE Head(details).hours[1]) + SumDetailHours(Tail(details))

item_total_hours_zero_falls_back(item) ==
    IF item.details /= <<>> /\ SumDetailHours(item.details) /= 0
    THEN SumDetailHours(item.details)
    ELSE OrZero(item.estimated_hours)

\* emailer._item_total_hours(item)
item_total_hours(item) ==
    IF item.details /= <<>>
    THEN SumDetailHours(item.details)
    ELSE OrZero(item.estimated_hours)

\* the row with the least id of a non-empty set of rows
FirstRow(rows) == CHOOSE r \in rows : \A q \in rows : r.id <= q.id

RECURSIVE SumEstimated(_)
SumEstimated(items) ==
    IF items = {} THEN 0
    ELSE LET item == FirstRow(items)
         IN OrZero(item.estimated_hours) + SumEstimated(items \ {item})

sum_plan_hours_ignores_details(plans, items, plan_id) ==
    IF ~ \E plan \in plans : plan.id = plan_id THEN 0
    ELSE SumEstimated({ it \in items : it.plan_id = plan_id })

\* the loop of sum_plan_hours over plan.items (lines 655-662)
RECURSIVE SumPlanItems(_)
SumPlanItems(items) ==
    IF items = {} THEN 0
    ELSE LET item == FirstRow(items)
         IN (IF item.details /= <<>>
             THEN SumDetailHours(item.details)
             ELSE OrZero(item.estimated_hours)) + SumPlanItems(items \ {item})

\* crud.sum_plan_hours(db, plan_id=)
sum_plan_hours(plans, items, plan_id) ==
    IF ~ \E plan \in plans : plan.id = plan_id THEN 0
    ELSE SumPlanItems({ it \in items : it.plan_id = plan_id })

ZeroStats == [estimated |-> 0, actual |-> 0, items |-> 0]

\* line 675: the mapping seeded with zero statistics for every requested id
StatsSeedNothing(plan_ids) == [pid \in {} |-> ZeroStats]
StatsSeed(plan_ids) == [pid \in { plan_ids[i] : i \in 1..Len(plan_ids) } |-> ZeroStats]

\* line 683: est = float(it.estimated_hours or 0)
ItemEstimatedUnlessDetails(it) == IF it.details /= <<>> THEN 0 ELSE OrZero(it.estimated_hours)
ItemEstimated(it) == OrZero(it.estimated_hours)

\* lines 676-680: select(PlanItem).where(PlanItem.plan_id.in_(plan_ids))
SelectItems(items, plan_ids) ==
    { it \in items : \E i \in 1..Len(plan_ids) : plan_ids[i] = it.plan_id }

\* stats.setdefault(pid, zero statistics)
SetDefault(stats, pid) ==
    IF pid \in DOMAIN stats THEN stats
    ELSE [k \in DOMAIN stats \cup {pid} |-> IF k = pid THEN ZeroStats ELSE stats[k]]

\* the loop of lines 681-694 over the selected items
RECURSIVE StatsLoop(_, _)
StatsLoop(stats, items) ==
    IF items = {} THEN stats
    ELSE LET it == FirstRow(items)
             s == SetDefault(stats, it.plan_id)
             est == ItemEstimated(it)
             actual == IF it.details /= <<>> THEN SumDetailHours(it.details) ELSE est
         IN StatsLoop([s EXCEPT ![it.plan_id] =
                          [estimated |-> @.estimated + est, actual |-> @.actual + actual,
                           items |-> @.items + 1]],
                      items \ {it})

\* crud.get_plan_item_stats(db, plan_ids): a mapping plan id -> statistics
get_plan_item_stats(items, plan_ids) ==
    IF plan_ids = <<>> THEN [pid \in {} |-> ZeroStats]
    ELSE LET stats == StatsLoop(StatsSeed(plan_ids), SelectItems(items, plan_ids))
         IN [pid \in DOMAIN stats |->
               [estimated |-> Round1(stats[pid].estimated),
                actual |-> Round1(stats[pid].actual),
                items |-> stats[pid].items]]

----------------------------------------------------------------------------
(* Plan hours: the tables, their writers and the reads *)

\* ids of plan_item rows stay within 1..MaxItems
MaxItems == 2

\* owners of plans, and the ids that reads ask for (3 is never a plan)
PlanOwners == {1, 2}
PlanIdArgs == {1, 2, 3}
PlanIdLists == { <<>>, <<1>>, <<1, 2>>, <<2, 3, 2>> }
ItemIdArgs == 1..MaxItems

\* estimated_hours of the item forms: none, 4.0
EstHours == { None, H(400) }

\* one detail of a replace_details payload
D(content, hours) == [content |-> content, hours |-> hours]

\* payloads of replace_details: contents with hours none, 2.5, 2.05, 1.0; " " is blank
DetailInputs ==
    { <<>>,
      << D("a", H(250)), D("b", None) >>,
      << D("a", None), D("b", None) >>,
      << D("a", H(205)), D(" ", H(250)), D("b", H(100)) >> }

\* one period exists: the pages call ensure_period before ensure_weekly_plan
InitHours ==
    /\ week_period = { PeriodRow(1, Ymd2Ord(2024, 2, 1)) }
    /\ proc = [p \in Procs |-> Idle]
    /\ returned = [d \in PeriodDates |-> {}]
    /\ calls = 0
    /\ wd_call = NoWorkdayCall
    /\ weekly_plan = {}
    /\ plan_item = {}
    /\ hours_call = NoHoursCall
    /\ ExtUnused

\* crud.ensure_weekly_plan(db, period_id=, owner_user_id=)
EnsureWeeklyPlan(period_id, owner) ==
    /\ IF \E plan \in weekly_plan : plan.period_id = period_id /\ plan.owner_user_id = owner
       THEN UNCHANGED <<weekly_plan, hours_call>>
       ELSE /\ weekly_plan' = weekly_plan \cup
                  { [id |-> NextId(weekly_plan), period_id |-> period_id,
                     owner_user_id |-> owner, status |-> "draft"] }
            /\ hours_call' = NoHoursCall
    /\ UNCHANGED <<periodVars, workdayVars, plan_item, extVars>>

\* web.add_item -> crud.add_item(db, plan_id=, estimated_hours=, ...), the plan found
AddItem(plan_id, estimated_hours) ==
    /\ \E plan \in weekly_plan : plan.id = plan_id
    /\ NextId(plan_item) <= MaxItems
    /\ plan_item' = plan_item \cup
          { [id |-> NextId(plan_item), plan_id |-> plan_id,
             estimated_hours |-> estimated_hours, details |-> <<>>] }
    /\ hours_call' = NoHoursCall
    /\ UNCHANGED <<periodVars, workdayVars, weekly_plan, extVars>>

\* crud.update_item(db, item_id=, estimated_hours=, ...)
UpdateItem(item_id, estimated_hours) ==
    /\ plan_item' = { IF it.id = item_id THEN [it EXCEPT !.estimated_hours = estimated_hours] ELSE it :
                      it \in plan_item }
    /\ hours_call' = NoHoursCall
    /\ UNCHANGED <<periodVars, workdayVars, weekly_plan, extVars>>

\* crud.delete_item(db, item_id=): the details go with the item
DeleteItem(item_id) ==
    /\ plan_item' = { it \in plan_item : it.id /= item_id }
    /\ hours_call' = NoHoursCall
    /\ UNCHANGED <<periodVars, workdayVars, weekly_plan, extVars>>

\* the details replace_item_details keeps of a payload, from position idx on:
\* blank contents are skipped, sort_no is the position in the payload
RECURSIVE KeptDetails(_, _)
KeptDetails(payload, idx) ==
    IF idx > Len(payload) THEN <<>>
    ELSE (IF payload[idx].content = " " THEN <<>>
          ELSE << [content |-> payload[idx].content, hours |-> payload[idx].hours, sort_no |-> idx] >>)
         \o KeptDetails(payload, idx + 1)

\* api.replace_details -> crud.replace_item_details(db, item_id=, details=)
ReplaceItemDetails(item_id, payload) ==
    /\ plan_item' = { IF it.id = item_id THEN [it EXCEPT !.details = KeptDetails(payload, 1)] ELSE it :
                      it \in plan_item }
    /\ hours_call' = NoHoursCall
    /\ UNCHANGED <<periodVars, workdayVars, weekly_plan, extVars>>

\* the mail of a plan: emailer._item_total_hours of one of its items
ItemTotalHours(item) ==
    /\ hours_call' = [op |-> "item_total_hours", arg |-> item.id, value |-> item_total_hours(LoadItem(item))]
    /\ UNCHANGED <<periodVars, workdayVars, weekly_plan, plan_item, extVars>>

\* a sum_plan_hours that would keep its result: every item of the plan gets
\* its total written into estimated_hours
SumPlanHoursStoresTotals(plan_id) ==
    /\ hours_call' = [op |-> "sum_plan_hours", arg |-> plan_id,
                      value |-> sum_plan_hours(weekly_plan, LoadItems(plan_item), plan_id)]
    /\ plan_item' = { IF it.plan_id = plan_id
                      THEN [it EXCEPT !.estimated_hours = H(item_total_hours(LoadItem(it)))]
                      ELSE it : it \in plan_item }
    /\ UNCHANGED <<periodVars, workdayVars, weekly_plan, extVars>>

\* web.plan_detail -> crud.sum_plan_hours(db, plan_id=)
SumPlanHours(plan_id) ==
    /\ hours_call' = [op |-> "sum_plan_hours", arg |-> plan_id,
                      value |-> sum_plan_hours(weekly_plan, LoadItems(plan_item), plan_id)]
    /\ UNCHANGED <<periodVars, workdayVars, weekly_plan, plan_item, extVars>>

\* web.my_plans / team pages -> crud.get_plan_item_stats(db, plan_ids)
GetPlanItemStats(plan_ids) ==
    /\ hours_call' = [op |-> "get_plan_item_stats", arg |-> plan_ids,
                      value |-> get_plan_item_stats(LoadItems(plan_item), plan_ids)]
    /\ UNCHANGED <<periodVars, workdayVars, weekly_plan, plan_item, extVars>>

NextHours ==
    \/ \E owner \in PlanOwners : EnsureWeeklyPlan(1, owner)
    \/ \E plan_id \in PlanIdArgs : \E e \in EstHours : AddItem(plan_id, e)
    \/ \E item_id \in ItemIdArgs : \E e \in EstHours : UpdateItem(item_id, e)
    \/ \E item_id \in ItemIdArgs : DeleteItem(item_id)
    \/ \E item_id \in ItemIdArgs : \E payload \in DetailInputs : ReplaceItemDetails(item_id, payload)
    \/ \E item \in plan_item : ItemTotalHours(item)
    \/ \E plan_id \in PlanIdArgs : SumPlanHours(plan_id)
    \/ \E plan_ids \in PlanIdLists : GetPlanItemStats(plan_ids)

SpecHours == InitHours /\ [][NextHours]_vars

----------------------------------------------------------------------------
(* Plan hours: properties *)

RECURSIVE SumOver(_, _)
SumOver(f, S) == IF S = {} THEN 0 ELSE LET k == CHOOSE k \in S : TRUE IN f[k] + SumOver(f, S \ {k})

\* the actual hours of an item, as the data model defines them
ActualHours(item) ==
    IF Len(item.details) >= 1
    THEN SumOver([i \in 1..Len(item.details) |->
                    IF item.details[i].hours = None THEN 0 ELSE item.details[i].hours[1]],
                 1..Len(item.details))
    ELSE IF item.estimated_hours = None THEN 0 ELSE item.estimated_hours[1]

EstimatedHours(item) == IF item.estimated_hours = None THEN 0 ELSE item.estimated_hours[1]

\* the items of a plan and the item of an id, as a session loads them
ItemsOf(plan_id) == { it \in LoadItems(plan_item) : it.plan_id = plan_id }
ItemIds(items) == { it.id : it \in items }
ItemById(id) == CHOOSE it \in LoadItems(plan_item) : it.id = id

\* C7: the actual hours of an item are the sum of its details' hours with
\* null as 0 when it has one or more details (0 when all are null, not the
\* estimate), and estimated_hours or 0 when it has none: so computes
\* _item_total_hours, and so counts get_plan_item_stats the only item of a plan.
C7_ItemActualHours ==
    /\ hours_call.op = "item_total_hours" =>
          hours_call.value = ActualHours(ItemById(hours_call.arg))
    /\ hours_call.op = "get_plan_item_stats" =>
          \A pid \in DOMAIN hours_call.value :
              \A it \in ItemsOf(pid) :
                  ItemsOf(pid) = {it} => hours_call.value[pid].actual = ActualHours(it)

\* an item estimated at 4.0 hours whose details all have null hours: actual hours 0
C7_Witness ==
    /\ hours_call.op = "item_total_hours"
    /\ hours_call.value = 0
    /\ LET it == ItemById(hours_call.arg)
       IN /\ it.estimated_hours = H(400)
          /\ Len(it.details) = 2
          /\ \A i \in 1..2 : it.details[i].hours = None

\* C8: sum_plan_hours of an existing plan is the sum of the actual hours of
\* the plan's items, 0 for a plan without items.
C8_SumPlanHours ==
    (hours_call.op = "sum_plan_hours" /\ \E plan \in weekly_plan : plan.id = hours_call.arg) =>
        /\ hours_call.value =
              SumOver([id \in ItemIds(ItemsOf(hours_call.arg)) |-> ActualHours(ItemById(id))],
                      ItemIds(ItemsOf(hours_call.arg)))
        /\ ItemsOf(hours_call.arg) = {} => hours_call.value = 0

\* a plan of two items: one with details (2.5 and null), estimated 4.0, and one
\* without details estimated 4.0: 6.5 hours
C8_Witness ==
    /\ hours_call.op = "sum_plan_hours"
    /\ hours_call.value = 650
    /\ \E a, b \in ItemsOf(hours_call.arg) :
          /\ a.details /= <<>> /\ a.estimated_hours = H(400)
          /\ b.details = <<>> /\ b.estimated_hours = H(400)

\* C9: for every requested plan id, get_plan_item_stats gives items = the
\* number of the plan's items, estimated = the sum of their estimated_hours
\* (null as 0) with or without details, actual = the sum of their actual
\* hours; the items of other plans count in no entry.
C9_PlanItemStats ==
    hours_call.op = "get_plan_item_stats" =>
        \A i \in 1..Len(hours_call.arg) :
            LET pid == hours_call.arg[i]
                ids == ItemIds(ItemsOf(pid))
                s == hours_call.value[pid]
            IN /\ s.items = Cardinality(ItemsOf(pid))
               /\ s.estimated = SumOver([id \in ids |-> EstimatedHours(ItemById(id))], ids)
               /\ s.actual = SumOver([id \in ids |-> ActualHours(ItemById(id))], ids)

\* statistics of plan 1 alone while plan 2 has an item too; the item of plan 1
\* has details, so estimated (4.0) and actual (2.5) differ
C9_Witness ==
    /\ hours_call.op = "get_plan_item_stats"
    /\ hours_call.arg = <<1>>
    /\ ItemsOf(2) /= {}
    /\ hours_call.value[1] = [estimated |-> 400, actual |-> 250, items |-> 1]

\* C10: the keys of the mapping get_plan_item_stats returns are exactly the
\* requested plan ids, and a requested plan without items maps to
\* estimated 0.0, actual 0.0, items 0.
C10_StatsKeys ==
    hours_call.op = "get_plan_item_stats" =>
        /\ DOMAIN hours_call.value = { hours_call.arg[i] : i \in 1..Len(hours_call.arg) }
        /\ \A i \in 1..Len(hours_call.arg) :
              ItemsOf(hours_call.arg[i]) = {} =>
                  hours_call.value[hours_call.arg[i]] = [estimated |-> 0, actual |-> 0, items |-> 0]

\* plans 1 and 2 requested, plan 1 with items, the existing plan 2 with none
C10_Witness ==
    /\ hours_call.op = "get_plan_item_stats"
    /\ hours_call.arg = <<1, 2>>
    /\ \E plan \in weekly_plan : plan.id = 2
    /\ ItemsOf(1) /= {} /\ ItemsOf(2) = {}
    /\ hours_call.value[2] = [estimated |-> 0, actual |-> 0, items |-> 0]
    /\ hours_call.value[1].items >= 1

----------------------------------------------------------------------------
(* Rounding of the reported hours *)

\* half-up rounding of hundredths to the tenth: a second decimal of 5 or more rounds up
HalfUp1(x) == ((x + 5) \div 10) * 10

\* the hours of a row as they were written, null as 0
RowEstimated(row) == IF row.estimated_hours = None THEN 0 ELSE row.estimated_hours[1]
RowActual(row) ==
    IF row.details /= <<>>
    THEN SumOver([i \in 1..Len(row.details) |->
                    IF row.details[i].hours = None THEN 0 ELSE row.details[i].hours[1]],
                 1..Len(row.details))
    ELSE RowEstimated(row)

RowsOf(plan_id) == { row \in plan_item : row.plan_id = plan_id }
ItemRowById(id) == CHOOSE row \in plan_item : row.id = id

\* C11: the estimated and actual totals of get_plan_item_stats, and the total
\* of sum_plan_hours, are the exact sums of the hours that were written,
\* rounded half-up to one decimal (3.05 is reported as 3.1).
C11_HalfUpRounding ==
    /\ hours_call.op = "get_plan_item_stats" =>
          \A pid \in DOMAIN hours_call.value :
              LET ids == ItemIds(RowsOf(pid))
              IN /\ hours_call.value[pid].estimated =
                       HalfUp1(SumOver([id \in ids |-> RowEstimated(ItemRowById(id))], ids))
                 /\ hours_call.value[pid].actual =
                       HalfUp1(SumOver([id \in ids |-> RowActual(ItemRowById(id))], ids))
    /\ (hours_call.op = "sum_plan_hours" /\ \E plan \in weekly_plan : plan.id = hours_call.arg) =>
          LET ids == ItemIds(RowsOf(hours_call.arg))
          IN hours_call.value = HalfUp1(SumOver([id \in ids |-> RowActual(ItemRowById(id))], ids))

----------------------------------------------------------------------------
(* The reads of the plan hours as reads *)

ReadOps == { "sum_plan_hours", "get_plan_item_stats" }

\* what a read of the given tables returns
ReadValue(plans, items, op, arg) ==
    IF op = "sum_plan_hours"
    THEN sum_plan_hours(plans, LoadItems(items), arg)
    ELSE get_plan_item_stats(LoadItems(items), arg)

----------------------------------------------------------------------------
(* Mail scheduler: scheduler.try_auto_send_week_plans, scheduler.email_scheduler_loop,
   the configuration files of emailer and the configuration saves of web *)

\* users with a configuration file, in the order iter_user_email_configs lists them
SchedUsers == <<1, 2>>
\* the users whose configuration is saved through the web layer
WebUsers == {1}
\* the dates the scheduler's clock shows: a day of ISO week 5 and a day of ISO week 6 of 2024
SchedDates == << Ymd2Ord(2024, 2, 1), Ymd2Ord(2024, 2, 8) >>

UserSet(q) == { q[i] : i \in 1..Len(q) }

\* key = f"{period.year}-W{period.week_no}"
PeriodKey(period) == << period.year, period.week_no >>

\* a configuration file without last_auto_sent_key, without last_auto_sent_at
NoKey == <<>>

\* the weekly_plan row the query of lines 55-69 finds, None without one
SubmittedPlan(plans, period_id, user_id) ==
    LET found == { plan \in plans : /\ plan.period_id = period_id
                                    /\ plan.owner_user_id = user_id
                                    /\ plan.status = "submitted" }
    IN IF found = {} THEN None ELSE H(FirstRow(found).id)

\* lines 41-53: the checks a user passes before anything is sent
PassesScheduleChecks(cfg, now, key) ==
    /\ cfg.schedule_enabled
    /\ now.due
    /\ cfg.last_auto_sent_key /= key

\* the count of attempts of one (user, key), kept up to "twice or more"
CountAttempt(n) == IF n >= 2 THEN 2 ELSE n + 1

TickIdle ==
    [pc |-> "idle", outcome |-> "none", now |-> <<>>, period_id |-> 0, key |-> NoKey,
     configs |-> <<>>, todo |-> <<>>, user_id |-> 0, cfg |-> <<>>, plan |-> None]

WebIdle == [pc |-> "idle", cfg_existing |-> <<>>]

\* every user has a configuration with the schedule enabled and a draft plan
\* in both weeks; both periods exist
InitSched ==
    /\ week_period = { PeriodRow(i, SchedDates[i]) : i \in 1..Len(SchedDates) }
    /\ proc = [p \in Procs |-> Idle]
    /\ returned = [d \in PeriodDates |-> {}]
    /\ calls = 0
    /\ WorkdayUnused
    /\ weekly_plan = { [id |-> 2 * (i - 1) + u, period_id |-> i, owner_user_id |-> u, status |-> "draft"] :
                       i \in 1..Len(SchedDates), u \in UserSet(SchedUsers) }
    /\ plan_item = {}
    /\ hours_call = NoHoursCall
    /\ CalendarUnused /\ PlanUnused /\ TemplateUnused /\ HolidayUnused
    /\ user_cfg = [u \in UserSet(SchedUsers) |-> [schedule_enabled |-> TRUE, last_auto_sent_key |-> NoKey,
                                               last_auto_sent_at |-> NoKey]]
    /\ clock = [date |-> 1, due |-> FALSE]
    /\ tick = TickIdle
    /\ attempts = [u \in UserSet(SchedUsers) |-> [i \in 1..Len(SchedDates) |-> 0]]
    /\ skipped = [u \in UserSet(SchedUsers) |-> [i \in 1..Len(SchedDates) |-> FALSE]]
    /\ web_req = [u \in WebUsers |-> WebIdle]

schedRest == <<week_period, proc, returned, calls, workdayVars, plan_item, hours_call,
               calendarVars, planVars, templateVars, holidayVars>>

\* the schedule time of the week comes, then the next week begins
TimePasses ==
    /\ \/ ~ clock.due /\ clock' = [clock EXCEPT !.due = TRUE]
       \/ clock.due /\ clock.date < Len(SchedDates) /\ clock' = [date |-> clock.date + 1, due |-> FALSE]
    /\ UNCHANGED <<schedRest, weekly_plan, user_cfg, tick, attempts, skipped, web_req>>

\* web.submit_plan -> crud.set_plan_status(db, plan_id=, status="submitted"), for a plan of the current week
SubmitPlan(plan_id) ==
    /\ \E plan \in weekly_plan : plan.id = plan_id /\ plan.period_id = clock.date /\ plan.status = "draft"
    /\ weekly_plan' = { IF plan.id = plan_id THEN [plan EXCEPT !.status = "submitted"] ELSE plan :
                        plan \in weekly_plan }
    /\ UNCHANGED <<schedRest, user_cfg, clock, tick, attempts, skipped, web_req>>

\* lines 35-40: now, the period of today, its key, and the configurations of all users
TickStart ==
    /\ tick.pc = "idle"
    /\ LET wp == iso_week_period(SchedDates[clock.date])
           period == FirstRow(Lookup(week_period, wp[1], wp[2]))
       IN tick' = [TickIdle EXCEPT !.pc = "iter", !.outcome = "running", !.now = clock,
                                   !.period_id = period.id, !.key = PeriodKey(period),
                                   !.configs = user_cfg, !.todo = SchedUsers]
    /\ UNCHANGED <<schedRest, weekly_plan, user_cfg, clock, attempts, skipped, web_req>>

\* lines 40-53: the next user of the loop, skipped unless the checks pass
TickNextUser ==
    /\ tick.pc = "iter"
    /\ IF tick.todo = <<>>
       THEN tick' = [TickIdle EXCEPT !.outcome = "completed"]
       ELSE LET u == Head(tick.todo)
                cfg == tick.configs[u]
            IN IF PassesScheduleChecks(cfg, tick.now, tick.key)
               THEN tick' = [tick EXCEPT !.pc = "query", !.user_id = u, !.cfg = cfg]
               ELSE tick' = [tick EXCEPT !.todo = Tail(@)]
    /\ UNCHANGED <<schedRest, weekly_plan, user_cfg, clock, attempts, skipped, web_req>>

\* an exception that leaves try_auto_send_week_plans: email_scheduler_loop
\* (lines 111-118) swallows it and sleeps until the next tick
TickAborts == [tick EXCEPT !.pc = "idle", !.outcome = "aborted"]

\* lines 55-69: the query of the user's submitted plan, outside the try
TickQueryPlan(ok) ==
    /\ tick.pc = "query"
    /\ tick' = IF ok
               THEN [tick EXCEPT !.pc = "send",
                                 !.plan = SubmittedPlan(weekly_plan, tick.period_id, tick.user_id)]
               ELSE TickAborts
    /\ UNCHANGED <<schedRest, weekly_plan, user_cfg, clock, attempts, skipped, web_req>>

\* lines 72-73: send_plan_email(plan, cfg) if there is a plan
TickSend(ok) ==
    /\ tick.pc = "send"
    /\ IF tick.plan = None
       THEN /\ ok
            /\ tick' = [tick EXCEPT !.pc = "save"]
            /\ UNCHANGED attempts
       ELSE /\ attempts' = [attempts EXCEPT ![tick.user_id][tick.period_id] = CountAttempt(@)]
            /\ tick' = [tick EXCEPT !.pc = IF ok THEN "log" ELSE "handler"]
    /\ UNCHANGED <<schedRest, weekly_plan, user_cfg, clock, skipped, web_req>>

\* lines 74-83: the operation log of the send
TickLog(ok) ==
    /\ tick.pc = "log"
    /\ tick' = [tick EXCEPT !.pc = IF ok THEN "save" ELSE "handler"]
    /\ UNCHANGED <<schedRest, weekly_plan, user_cfg, clock, attempts, skipped, web_req>>

\* lines 84-86: the key and the time into the configuration read at the start of the
\* tick, and the file written
TickSave(ok) ==
    /\ tick.pc = "save"
    /\ LET cfg == [tick.cfg EXCEPT !.last_auto_sent_key = tick.key, !.last_auto_sent_at = tick.now]
       IN IF ok
          THEN /\ user_cfg' = [user_cfg EXCEPT ![tick.user_id] = cfg]
               /\ skipped' = [skipped EXCEPT ![tick.user_id][tick.period_id] = @ \/ tick.plan = None]
               /\ tick' = [tick EXCEPT !.pc = "iter", !.cfg = cfg, !.todo = Tail(@)]
          ELSE /\ tick' = [tick EXCEPT !.pc = "handler", !.cfg = cfg]
               /\ UNCHANGED <<user_cfg, skipped>>
    /\ UNCHANGED <<schedRest, weekly_plan, clock, attempts, web_req>>

\* lines 87-106: the failure log, whose own failure is swallowed, then the key
\* and the file again, this time outside any try
TickHandler(ok) ==
    /\ tick.pc = "handler"
    /\ LET cfg == [tick.cfg EXCEPT !.last_auto_sent_key = tick.key, !.last_auto_sent_at = tick.now]
       IN IF ok
          THEN /\ user_cfg' = [user_cfg EXCEPT ![tick.user_id] = cfg]
               /\ skipped' = [skipped EXCEPT ![tick.user_id][tick.period_id] = @ \/ tick.plan = None]
               /\ tick' = [tick EXCEPT !.pc = "iter", !.cfg = cfg, !.todo = Tail(@)]
          ELSE /\ tick' = TickAborts
               /\ UNCHANGED <<user_cfg, skipped>>
    /\ UNCHANGED <<schedRest, weekly_plan, clock, attempts, web_req>>

\* the process dies inside a tick or inside a save and is started again: the files stay
Crash ==
    /\ tick.pc /= "idle" \/ \E u \in WebUsers : web_req[u].pc /= "idle"
    /\ tick' = [TickIdle EXCEPT !.outcome = "crashed"]
    /\ web_req' = [u \in WebUsers |-> WebIdle]
    /\ UNCHANGED <<schedRest, weekly_plan, user_cfg, clock, attempts, skipped>>

\* web.user_email_config_save / web.email_config_save: cfg_existing = load_user_email_config(user.id)
WebLoadConfig(u) ==
    /\ web_req[u].pc = "idle"
    /\ web_req' = [web_req EXCEPT ![u] = [pc |-> "loaded", cfg_existing |-> user_cfg[u]]]
    /\ UNCHANGED <<schedRest, weekly_plan, user_cfg, clock, tick, attempts, skipped>>

\* a save that writes the fields of the form only
WebSaveFormOnly(u, schedule_enabled) ==
    /\ web_req[u].pc = "loaded"
    /\ user_cfg' = [user_cfg EXCEPT ![u] =
                      [schedule_enabled |-> schedule_enabled,
                       last_auto_sent_key |-> NoKey, last_auto_sent_at |-> NoKey]]
    /\ web_req' = [web_req EXCEPT ![u] = WebIdle]
    /\ UNCHANGED <<schedRest, weekly_plan, clock, tick, attempts, skipped>>

\* the configuration of the form with last_auto_sent_key and last_auto_sent_at of
\* cfg_existing, written to the file
WebSaveConfig(u, schedule_enabled) ==
    /\ web_req[u].pc = "loaded"
    /\ user_cfg' = [user_cfg EXCEPT ![u] =
                      [schedule_enabled |-> schedule_enabled,
                       last_auto_sent_key |-> web_req[u].cfg_existing.last_auto_sent_key,
                       last_auto_sent_at |-> web_req[u].cfg_existing.last_auto_sent_at]]
    /\ web_req' = [web_req EXCEPT ![u] = WebIdle]
    /\ UNCHANGED <<schedRest, weekly_plan, clock, tick, attempts, skipped>>

NextSched ==
    \/ TimePasses
    \/ \E plan \in weekly_plan : SubmitPlan(plan.id)
    \/ TickStart
    \/ TickNextUser
    \/ \E ok \in BOOLEAN : TickQueryPlan(ok)
    \/ \E ok \in BOOLEAN : TickSend(ok)
    \/ \E ok \in BOOLEAN : TickLog(ok)
    \/ \E ok \in BOOLEAN : TickSave(ok)
    \/ \E ok \in BOOLEAN : TickHandler(ok)
    \/ Crash
    \/ \E u \in WebUsers : WebLoadConfig(u)
    \/ \E u \in WebUsers : \E e \in BOOLEAN : WebSaveConfig(u, e)

SpecSched == InitSched /\ [][NextSched]_vars

\* C12: over any run of ticks, crashes and restarts included, the scheduler
\* calls send_plan_email at most once per user and period key.
C12_AtMostOneAttempt ==
    \A u \in UserSet(SchedUsers) : \A i \in 1..Len(SchedDates) : attempts[u][i] <= 1

\* C13: a tick that an exception ended leaves no user unvisited who passes
\* the schedule checks: a failure in the processing of one user prevents no
\* other user's send attempt of that tick.
C13_FailureIsolated ==
    tick.outcome = "aborted" =>
        \A j \in 2..Len(tick.todo) :
            ~ PassesScheduleChecks(tick.configs[tick.todo[j]], tick.now, tick.key)

\* the key of the week the clock shows
CurrentKey ==
    LET wp == iso_week_period(SchedDates[clock.date])
    IN PeriodKey(FirstRow(Lookup(week_period, wp[1], wp[2])))

\* a step that ends the configuration save of user u
EndsWebSave(u) == web_req[u].pc = "loaded" /\ web_req'[u].pc = "idle"

C28_SchedulerKeyNotLost ==
    [][ \A u \in WebUsers :
          (/\ EndsWebSave(u)
           /\ attempts[u][clock.date] >= 1
           /\ user_cfg[u].last_auto_sent_key = CurrentKey) =>
              user_cfg'[u].last_auto_sent_key = CurrentKey ]_vars

\* the weekly_plan row of an id
PlanById(plan_id) == FirstRow({ plan \in weekly_plan : plan.id = plan_id })

\* C29: the plan the scheduler sends is owned by the user of the
\* configuration, is of the period of the current ISO week and is submitted;
\* once a tick that passed the schedule checks found no submitted plan and
\* wrote the key, no plan of that user and period is sent by the scheduler.
C29_SkippedWeekNeverSent ==
    /\ (tick.pc \in {"send", "log"} /\ tick.plan /= None) =>
          LET plan == PlanById(tick.plan[1])
          IN /\ plan.owner_user_id = tick.user_id
             /\ plan.status = "submitted"
             /\ plan.period_id = tick.period_id
             /\ tick.key = PeriodKey(FirstRow({ row \in week_period : row.id = plan.period_id }))
             /\ << tick.key[1], tick.key[2] >> = << iso_week_period(SchedDates[tick.now.date])[1],
                                                   iso_week_period(SchedDates[tick.now.date])[2] >>
    /\ \A u \in UserSet(SchedUsers) : \A i \in 1..Len(SchedDates) :
          skipped[u][i] => attempts[u][i] = 0

----------------------------------------------------------------------------
(* Weekly plans: crud.ensure_weekly_plan and the drafts of web.team_detail,
   as request threads on the table weekly_plan *)

\* the members of the team, in the order of User.id, and the period asked for
TeamMembers == <<1, 2>>
PlanPeriods == {1}

\* UniqueConstraint("owner_user_id", "period_id"): an INSERT of the pair is refused
NoPlanUniqueConstraint(rows, period_id, owner) == FALSE
PlanUniqueViolation(rows, period_id, owner) ==
    \E plan \in rows : plan.period_id = period_id /\ plan.owner_user_id = owner

\* select(WeeklyPlan).where(period_id == ..., owner_user_id == ...)
PlanLookup(rows, period_id, owner) ==
    { plan \in rows : plan.period_id = period_id /\ plan.owner_user_id = owner }

\* models.WeeklyPlan(period_id=, owner_user_id=, status="draft")
DraftPlan(id, period_id, owner) ==
    [id |-> id, period_id |-> period_id, owner_user_id |-> owner, status |-> "draft"]

PlanReqIdle ==
    [pc |-> "idle", op |-> "none", period_id |-> 0, owner |-> 0, prior |-> FALSE,
     have |-> {}, todo |-> <<>>, pending |-> {}, created |-> FALSE, result |-> 0]

\* a thread between its first INSERT and its commit holds the write lock of the database
HoldsWriteLock(q) == plan_req[q].pending /= {}
OthersHoldNoLock(p) == \A q \in Procs \ {p} : ~ HoldsWriteLock(q)

InitPlan ==
    /\ week_period = { PeriodRow(1, Ymd2Ord(2024, 2, 1)) }
    /\ proc = [p \in Procs |-> Idle]
    /\ returned = [d \in PeriodDates |-> {}]
    /\ calls = 0
    /\ WorkdayUnused /\ HoursUnused
    /\ CalendarUnused /\ TemplateUnused /\ SchedUnused /\ HolidayUnused
    /\ plan_req = [p \in Procs |-> PlanReqIdle]

planRest == <<periodVars, workdayVars, plan_item, hours_call,
              calendarVars, templateVars, schedVars, holidayVars>>

\* a page calls crud.ensure_weekly_plan(db, period_id=, owner_user_id=)
CallEnsureWeeklyPlan(p, period_id, owner) ==
    /\ plan_req[p].pc \in Resting
    /\ plan_req' = [plan_req EXCEPT ![p] =
                      [PlanReqIdle EXCEPT !.pc = "select", !.op = "ensure_weekly_plan",
                                          !.period_id = period_id, !.owner = owner,
                                          !.prior = PlanLookup(weekly_plan, period_id, owner) /= {}]]
    /\ UNCHANGED <<planRest, weekly_plan>>

\* lines 368-373: the select, and the return of the plan it finds
EwpSelect(p) ==
    /\ plan_req[p].pc = "select"
    /\ LET found == PlanLookup(weekly_plan, plan_req[p].period_id, plan_req[p].owner)
       IN plan_req' = [plan_req EXCEPT ![p] =
                         IF found /= {}
                         THEN [@ EXCEPT !.pc = "returned", !.result = FirstRow(found).id]
                         ELSE [@ EXCEPT !.pc = "insert"]]
    /\ UNCHANGED <<planRest, weekly_plan>>

\* lines 375-379: the draft plan added and committed; the constraint refuses a second row
EwpInsert(p) ==
    /\ plan_req[p].pc = "insert"
    /\ OthersHoldNoLock(p)
    /\ IF PlanUniqueViolation(weekly_plan, plan_req[p].period_id, plan_req[p].owner)
       THEN /\ plan_req' = [plan_req EXCEPT ![p].pc = "raised"]
            /\ UNCHANGED weekly_plan
       ELSE LET plan == DraftPlan(NextId(weekly_plan), plan_req[p].period_id, plan_req[p].owner)
            IN /\ weekly_plan' = weekly_plan \cup {plan}
               /\ plan_req' = [plan_req EXCEPT ![p].pc = "returned", ![p].created = TRUE,
                                               ![p].result = plan.id]
    /\ UNCHANGED planRest

\* GET /admin/teams/{team_id}/detail for a period
CallTeamDetail(p, period_id) ==
    /\ plan_req[p].pc \in Resting
    /\ plan_req' = [plan_req EXCEPT ![p] =
                      [PlanReqIdle EXCEPT !.pc = "td_select", !.op = "team_detail",
                                          !.period_id = period_id]]
    /\ UNCHANGED <<planRest, weekly_plan>>

\* web.py 667-679: the plans of the members in the period, by owner
TdSelect(p) ==
    /\ plan_req[p].pc = "td_select"
    /\ plan_req' = [plan_req EXCEPT ![p].pc = "td_loop", ![p].todo = TeamMembers,
                       ![p].have = { plan.owner_user_id : plan \in
                                       { q \in weekly_plan : /\ q.period_id = plan_req[p].period_id
                                                             /\ q.owner_user_id \in UserSet(TeamMembers) } }]
    /\ UNCHANGED <<planRest, weekly_plan>>

\* web.py 681-690: a draft plan added and flushed for every member without one, then the commit
TdLoop(p) ==
    /\ plan_req[p].pc = "td_loop"
    /\ LET r == plan_req[p]
       IN IF r.todo = <<>>
          THEN /\ weekly_plan' = weekly_plan \cup r.pending
               /\ plan_req' = [plan_req EXCEPT ![p].pc = "returned", ![p].pending = {},
                                               ![p].created = r.pending /= {}]
          ELSE IF Head(r.todo) \in r.have
          THEN /\ plan_req' = [plan_req EXCEPT ![p].todo = Tail(@)]
               /\ UNCHANGED weekly_plan
          ELSE /\ OthersHoldNoLock(p)
               /\ IF PlanUniqueViolation(weekly_plan, r.period_id, Head(r.todo))
                  THEN plan_req' = [plan_req EXCEPT ![p].pc = "raised", ![p].pending = {}]
                  ELSE plan_req' = [plan_req EXCEPT ![p].todo = Tail(@),
                                       ![p].pending = @ \cup
                                           { DraftPlan(NextId(weekly_plan \cup r.pending),
                                                       r.period_id, Head(r.todo)) }]
               /\ UNCHANGED weekly_plan
    /\ UNCHANGED planRest

NextPlan ==
    \E p \in Procs :
        \/ \E period_id \in PlanPeriods : \E owner \in UserSet(TeamMembers) :
               CallEnsureWeeklyPlan(p, period_id, owner)
        \/ EwpSelect(p)
        \/ EwpInsert(p)
        \/ \E period_id \in PlanPeriods : CallTeamDetail(p, period_id)
        \/ TdSelect(p)
        \/ TdLoop(p)

SpecPlan == InitPlan /\ [][NextPlan]_vars

----------------------------------------------------------------------------
(* Plan and item operations called with an id (crud.get_plan, set_plan_status,
   sum_plan_hours, update_item, replace_item_details) and the plan templates
   (crud.create_plan_template_from_plan, apply_plan_template_to_plan) *)

\* the arguments of the calls: plan 2 and template 2 never exist, " " is a blank name
OpPlanIds == {1, 2}
TemplateIdArgs == {1, 2}
TemplateNames == { "t", " " }
ApplyModes == { "append", "replace", "merge" }
StatusArgs == { "submitted" }
OpEstHours == { H(100) }
OpDetailInputs == { << D("a", H(205)), D(" ", H(250)), D("b", None) >> }

\* a plan_item row with its place in the plan
PlanItemRow(id, plan_id, sort_no, estimated_hours, details) ==
    [id |-> id, plan_id |-> plan_id, estimated_hours |-> estimated_hours,
     details |-> details, sort_no |-> sort_no]

\* the items of plan 1 when the operations begin: none, one, or two of which
\* the second has a detail
OpInitItems ==
    { {},
      { PlanItemRow(1, 1, 1, H(400), <<>>) },
      { PlanItemRow(1, 1, 1, H(400), <<>>),
        PlanItemRow(2, 1, 2, None, << [content |-> "a", hours |-> H(250), sort_no |-> 1] >>) } }

\* sorted(items, key=lambda x: x.sort_no), rows of equal sort_no in the order of their ids
RECURSIVE SortedBySortNo(_)
SortedBySortNo(items) ==
    IF items = {} THEN <<>>
    ELSE LET first == CHOOSE it \in items :
                          \A o \in items : it.sort_no < o.sort_no \/ (it.sort_no = o.sort_no /\ it.id <= o.id)
         IN <<first>> \o SortedBySortNo(items \ {first})

\* the details copied between a plan item and a template item: read through
\* the Numeric column, in the order of sort_no and numbered from 1
CopiedDetails(details) ==
    [i \in 1..Len(details) |->
        [content |-> details[i].content, hours |-> NumericRead(details[i].hours), sort_no |-> i]]

\* the PlanTemplateItem rows create_plan_template_from_plan writes for the items of a plan
TemplateItems(items) ==
    LET s == SortedBySortNo(items)
    IN [i \in 1..Len(s) |->
           [estimated_hours |-> NumericRead(s[i].estimated_hours),
            details |-> CopiedDetails(s[i].details), sort_no |-> i]]

\* coalesce(max(PlanItem.sort_no), 0) of the plan's rows
MaxSort(items, plan_id) ==
    LET own == { it \in items : it.plan_id = plan_id }
    IN IF own = {} THEN 0
       ELSE LET last == CHOOSE it \in own : \A o \in own : it.sort_no >= o.sort_no
            IN last.sort_no

\* an apply that would number the added items from 1, whatever the plan holds
AppliedItemsFromOne(tpl_items, plan_id, first_id, max_sort) ==
    { PlanItemRow(first_id + offset - 1, plan_id, offset,
                  NumericRead(tpl_items[offset].estimated_hours),
                  CopiedDetails(tpl_items[offset].details)) : offset \in 1..Len(tpl_items) }

\* the PlanItem rows apply_plan_template_to_plan adds for the template's items,
\* one flush after the other
AppliedItems(tpl_items, plan_id, first_id, max_sort) ==
    { PlanItemRow(first_id + offset - 1, plan_id, max_sort + offset,
                  NumericRead(tpl_items[offset].estimated_hours),
                  CopiedDetails(tpl_items[offset].details)) : offset \in 1..Len(tpl_items) }

PlanExists(plan_id) == \E plan \in weekly_plan : plan.id = plan_id
ItemExists(item_id) == \E it \in plan_item : it.id = item_id

\* no operation called yet
NoOpCall == [op |-> "none", arg |-> <<>>, found |-> TRUE, outcome |-> "none", value |-> <<>>, changed |-> FALSE]

\* the record of a call: whether the id was found, what came back (None, a
\* value or a raised error) and whether the tables differ after it
OpCall(op, arg, found, outcome, value) ==
    [op |-> op, arg |-> arg, found |-> found, outcome |-> outcome, value |-> value,
     changed |-> <<weekly_plan, plan_item, plan_template>>' /= <<weekly_plan, plan_item, plan_template>>]

InitTemplate ==
    /\ week_period = { PeriodRow(1, Ymd2Ord(2024, 2, 1)) }
    /\ proc = [p \in Procs |-> Idle]
    /\ returned = [d \in PeriodDates |-> {}]
    /\ calls = 0
    /\ WorkdayUnused
    /\ weekly_plan = { DraftPlan(1, 1, 1) }
    /\ plan_item \in OpInitItems
    /\ hours_call = NoHoursCall
    /\ plan_template = {}
    /\ op_call = NoOpCall
    /\ CalendarUnused /\ PlanUnused /\ SchedUnused /\ HolidayUnused

templateRest == <<periodVars, workdayVars, hours_call, calendarVars, planVars, schedVars, holidayVars>>

\* crud.get_plan(db, plan_id)
CallGetPlan(plan_id) ==
    /\ UNCHANGED <<weekly_plan, plan_item, plan_template, templateRest>>
    /\ op_call' = IF PlanExists(plan_id)
                  THEN OpCall("get_plan", <<plan_id>>, TRUE, "value", <<plan_id>>)
                  ELSE OpCall("get_plan", <<plan_id>>, FALSE, "none", <<>>)

\* crud.set_plan_status(db, plan_id=, status=)
CallSetPlanStatus(plan_id, status) ==
    /\ weekly_plan' = { IF plan.id = plan_id THEN [plan EXCEPT !.status = status] ELSE plan :
                        plan \in weekly_plan }
    /\ UNCHANGED <<plan_item, plan_template, templateRest>>
    /\ op_call' = IF PlanExists(plan_id)
                  THEN OpCall("set_plan_status", <<plan_id, status>>, TRUE, "value", <<plan_id>>)
                  ELSE OpCall("set_plan_status", <<plan_id, status>>, FALSE, "none", <<>>)

\* crud.sum_plan_hours(db, plan_id=): 0.0 when the plan is not there
CallSumPlanHours(plan_id) ==
    /\ UNCHANGED <<weekly_plan, plan_item, plan_template, templateRest>>
    /\ op_call' = OpCall("sum_plan_hours", <<plan_id>>, PlanExists(plan_id), "value",
                         << sum_plan_hours(weekly_plan, LoadItems(plan_item), plan_id) >>)

\* crud.update_item(db, item_id=, estimated_hours=, ...)
CallUpdateItem(item_id, estimated_hours) ==
    /\ plan_item' = { IF it.id = item_id THEN [it EXCEPT !.estimated_hours = estimated_hours] ELSE it :
                      it \in plan_item }
    /\ UNCHANGED <<weekly_plan, plan_template, templateRest>>
    /\ op_call' = IF ItemExists(item_id)
                  THEN OpCall("update_item", <<item_id, estimated_hours>>, TRUE, "value", <<item_id>>)
                  ELSE OpCall("update_item", <<item_id, estimated_hours>>, FALSE, "none", <<>>)

\* crud.replace_item_details(db, item_id=, details=): [] when the item is not there
CallReplaceItemDetails(item_id, payload) ==
    /\ plan_item' = { IF it.id = item_id THEN [it EXCEPT !.details = KeptDetails(payload, 1)] ELSE it :
                      it \in plan_item }
    /\ UNCHANGED <<weekly_plan, plan_template, templateRest>>
    /\ op_call' = OpCall("replace_item_details", <<item_id>>, ItemExists(item_id), "value",
                         IF ItemExists(item_id) THEN LoadDetails(KeptDetails(payload, 1)) ELSE <<>>)

\* crud.create_plan_template_from_plan(db, plan_id=, name=, created_by_user_id=)
CallCreatePlanTemplate(plan_id, name) ==
    LET raise(error) ==
            /\ UNCHANGED plan_template
            /\ op_call' = OpCall("create_plan_template_from_plan", <<plan_id, name>>,
                                 PlanExists(plan_id), "raised", <<error>>)
    IN /\ UNCHANGED <<weekly_plan, plan_item, templateRest>>
       /\ IF name = " " THEN raise("template_name_required")
          ELSE IF \E tpl \in plan_template : tpl.name = name THEN raise("template_name_exists")
          ELSE IF ~ PlanExists(plan_id) THEN raise("plan_not_found")
          ELSE /\ plan_template' = plan_template \cup
                     { [id |-> NextId(plan_template), name |-> name,
                        items |-> TemplateItems({ it \in LoadItems(plan_item) : it.plan_id = plan_id })] }
               /\ op_call' = OpCall("create_plan_template_from_plan", <<plan_id, name>>, TRUE,
                                    "value", << NextId(plan_template) >>)

\* crud.apply_plan_template_to_plan(db, plan_id=, template_id=, mode=); the
\* plan holds at most MaxItems + 2 items
CallApplyPlanTemplate(plan_id, template_id, mode) ==
    LET tpls == { tpl \in plan_template : tpl.id = template_id }
        raise(error) ==
            /\ UNCHANGED plan_item
            /\ op_call' = OpCall("apply_plan_template_to_plan", <<plan_id, template_id, mode>>,
                                 PlanExists(plan_id), "raised", <<error>>)
    IN /\ UNCHANGED <<weekly_plan, plan_template, templateRest>>
       /\ IF ~ PlanExists(plan_id) \/ tpls = {} THEN raise("not_found")
          ELSE IF mode \notin { "append", "replace" } THEN raise("invalid_mode")
          ELSE LET tpl == FirstRow(tpls)
                   kept == IF mode = "replace"
                           THEN { it \in plan_item : it.plan_id /= plan_id }
                           ELSE plan_item
                   added == AppliedItems(tpl.items, plan_id, NextId(kept), MaxSort(kept, plan_id))
               IN /\ Cardinality(kept \cup added) <= MaxItems + 2
                  /\ plan_item' = kept \cup added
                  /\ op_call' = OpCall("apply_plan_template_to_plan", <<plan_id, template_id, mode>>,
                                       TRUE, "none", <<>>)

NextTemplate ==
    \/ \E plan_id \in OpPlanIds : CallGetPlan(plan_id)
    \/ \E plan_id \in OpPlanIds : \E status \in StatusArgs : CallSetPlanStatus(plan_id, status)
    \/ \E plan_id \in OpPlanIds : CallSumPlanHours(plan_id)
    \/ \E item_id \in ItemIdArgs : \E e \in OpEstHours : CallUpdateItem(item_id, e)
    \/ \E item_id \in ItemIdArgs : \E payload \in OpDetailInputs : CallReplaceItemDetails(item_id, payload)
    \/ \E plan_id \in OpPlanIds : \E name \in TemplateNames : CallCreatePlanTemplate(plan_id, name)
    \/ \E plan_id \in OpPlanIds : \E template_id \in TemplateIdArgs : \E mode \in ApplyModes :
           CallApplyPlanTemplate(plan_id, template_id, mode)

SpecTemplate == InitTemplate /\ [][NextTemplate]_vars

\* C16: every operation called with a plan id or an item id that does not
\* exist returns None, raises no exception and leaves the tables as they were
C16_NotFoundIsNone ==
    ~ op_call.found => op_call.outcome = "none" /\ ~ op_call.changed

\* the items of a plan in a table, and the same items in the order of sort_no
PlanItemsIn(items, plan_id) == { it \in items : it.plan_id = plan_id }

\* an item of a plan holds what an item of a template holds: the hours and the
\* details, content and hours in the same order
SameContent(item, t_item) ==
    /\ item.estimated_hours = t_item.estimated_hours
    /\ Len(item.details) = Len(t_item.details)
    /\ \A i \in 1..Len(item.details) :
          /\ item.details[i].content = t_item.details[i].content
          /\ item.details[i].hours = t_item.details[i].hours

\* a set of items is the items of a template, in the template's order
IsTemplateCopy(items, tpl_items) ==
    LET sorted == SortedBySortNo(items)
    IN /\ Len(sorted) = Len(tpl_items)
       /\ \A i \in 1..Len(sorted) : SameContent(sorted[i], tpl_items[i])
       /\ \A i, j \in 1..Len(sorted) : i < j => sorted[i].sort_no < sorted[j].sort_no

\* C22: apply_plan_template_to_plan in mode replace leaves the plan with
\* exactly the template's items and their details, in the template's order,
\* and none of the items it had; in mode append it keeps every item the plan
\* had as it was and adds the template's items in the template's order, each
\* with a sort_no above every earlier item's; any other mode raises an error
\* and changes nothing; the template is never changed.
C22_ApplyTemplate ==
    [][ op_call'.op = "apply_plan_template_to_plan" =>
          LET plan_id == op_call'.arg[1]
              mode == op_call'.arg[3]
              tpls == { tpl \in plan_template : tpl.id = op_call'.arg[2] }
              before == PlanItemsIn(plan_item, plan_id)
              after == PlanItemsIn(plan_item', plan_id)
          IN /\ plan_template' = plan_template
             /\ weekly_plan' = weekly_plan
             /\ plan_item' \ after = plan_item \ before
             /\ mode \notin { "append", "replace" } =>
                    op_call'.outcome = "raised" /\ plan_item' = plan_item
             /\ op_call'.outcome = "raised" => plan_item' = plan_item
             /\ (op_call'.outcome /= "raised" /\ mode = "replace") =>
                    \A tpl \in tpls : IsTemplateCopy(after, tpl.items)
             /\ (op_call'.outcome /= "raised" /\ mode = "append") =>
                    /\ before \subseteq after
                    /\ \A tpl \in tpls : IsTemplateCopy(after \ before, tpl.items)
                    /\ \A new \in after \ before : \A old \in before : new.sort_no > old.sort_no
                    /\ tpls /= {}
      ]_vars

\* a template of two items appended to the plan's own two items, the second
\* template item with a detail: four items, the added ones after the others
C22_Witness ==
    /\ op_call.op = "apply_plan_template_to_plan"
    /\ op_call.outcome = "none"
    /\ op_call.arg[3] = "append"
    /\ \E tpl \in plan_template : Len(tpl.items) = 2 /\ Len(tpl.items[2].details) = 1
    /\ Cardinality(PlanItemsIn(plan_item, 1)) = 4
    /\ \E it \in plan_item : it.sort_no = 4 /\ Len(it.details) = 1


----------------------------------------------------------------------------
(* The holiday calendar: holidays.load_calendar over the sources under data/
   (calendar.json, holidays.txt, workdays.txt) and web.holidays_sync, which
   rewrites calendar.json from the external feed *)

\* the week whose workdays a page computes, and the dates the sources and the feed hold
CalWeekStart == Ymd2Ord(2024, 2, 5)
CalWeekEnd == Ymd2Ord(2024, 2, 11)
JsonHolidays == { Ymd2Ord(2024, 2, 6) }
JsonWorkdays == { Ymd2Ord(2024, 2, 10) }
TxtHolidays == { Ymd2Ord(2024, 2, 7) }
TxtWorkdays == { Ymd2Ord(2024, 2, 11) }
FeedHolidays == { Ymd2Ord(2024, 2, 8) }
FeedWorkdays == { Ymd2Ord(2024, 2, 4) }

\* the conditions of calendar.json: not there, as saved by the admin, as
\* written by a sync, not readable (OSError), not JSON, or JSON whose
\* "workdays" holds a number
JsonConditions == { "absent", "ok", "synced", "unreadable", "malformed", "bad_workdays" }

\* the conditions of holidays.txt and of workdays.txt: not there, lines of
\* dates, not readable (OSError), lines that are no dates, bytes that are no UTF-8
TxtConditions == { "absent", "ok", "unreadable", "not_dates", "undecodable" }

\* the outcomes of urlopen(...).read().decode() and json.loads in holidays_sync
FetchOutcomes == { "ok", "unreachable", "not_json" }
FetchFailures == { "unreachable", "not_json" }

NoDates == [holidays |-> {}, workdays |-> {}]

\* lines 41-47 of load_calendar: what calendar.json adds; every exception is
\* passed over, but the holidays of line 44 are in when line 45 fails
JsonRead(condition) ==
    CASE condition = "ok" -> [holidays |-> JsonHolidays, workdays |-> JsonWorkdays]
      [] condition = "synced" -> [holidays |-> FeedHolidays, workdays |-> FeedWorkdays]
      [] condition = "bad_workdays" -> [holidays |-> JsonHolidays, workdays |-> {}]
      [] OTHER -> NoDates

\* lines 62-67 and 70-75: what a text file adds; only OSError is passed over,
\* the UnicodeDecodeError of read_text(encoding="utf-8") is not
TxtRead(condition, dates) ==
    [raised |-> condition = "undecodable",
     dates |-> IF condition = "ok" THEN dates ELSE {}]

\* holidays.load_calendar(base_dir=), HOLIDAYS and WORKDAYS of the environment not set
load_calendar(files) ==
    LET json == JsonRead(files.json)
        holidays_txt == TxtRead(files.holidays_txt, TxtHolidays)
        workdays_txt == TxtRead(files.workdays_txt, TxtWorkdays)
    IN IF holidays_txt.raised \/ workdays_txt.raised
       THEN [outcome |-> "raised", holidays |-> {}, workdays |-> {}]
       ELSE [outcome |-> "returned",
             holidays |-> json.holidays \cup holidays_txt.dates,
             workdays |-> json.workdays \cup workdays_txt.dates]

NoHolidayCall ==
    [op |-> "none", fetch |-> "none", outcome |-> "none", before |-> "none",
     holidays |-> {}, workdays |-> {}, range |-> <<>>]

InitHoliday ==
    /\ PeriodUnused /\ WorkdayUnused /\ HoursUnused
    /\ CalendarUnused /\ PlanUnused /\ TemplateUnused /\ SchedUnused
    /\ cal_files \in [json : JsonConditions, holidays_txt : TxtConditions, workdays_txt : TxtConditions]
    /\ hol_call = NoHolidayCall

holidayRest == <<periodVars, workdayVars, hoursVars, calendarVars, planVars, templateVars, schedVars>>

\* web.plan_detail: load_calendar(base_dir=base_dir), then workday_range of the plan's week
LoadCalendar ==
    LET loaded == load_calendar(cal_files)
    IN /\ hol_call' = [NoHolidayCall EXCEPT
                          !.op = "load_calendar",
                          !.outcome = loaded.outcome,
                          !.holidays = loaded.holidays,
                          !.workdays = loaded.workdays,
                          !.range = IF loaded.outcome = "returned"
                                    THEN workday_range(CalWeekStart, CalWeekEnd, loaded.holidays, loaded.workdays)
                                    ELSE <<>>]
       /\ UNCHANGED <<cal_files, holidayRest>>

\* web.holidays_sync: a failed fetch is logged and answered with a redirect;
\* otherwise calendar.json is written, which a file the process may not
\* read may or may not allow
HolidaysSync(fetch, writable) ==
    /\ cal_files.json /= "unreadable" => writable
    /\ IF fetch \in FetchFailures
       THEN /\ writable
            /\ hol_call' = [NoHolidayCall EXCEPT !.op = "holidays_sync", !.fetch = fetch,
                                                 !.outcome = "redirect", !.before = cal_files.json]
            /\ UNCHANGED cal_files
       ELSE IF writable
       THEN /\ hol_call' = [NoHolidayCall EXCEPT !.op = "holidays_sync", !.fetch = fetch,
                                                 !.outcome = "redirect", !.before = cal_files.json]
            /\ cal_files' = [cal_files EXCEPT !.json = "synced"]
       ELSE /\ hol_call' = [NoHolidayCall EXCEPT !.op = "holidays_sync", !.fetch = fetch,
                                                 !.outcome = "raised", !.before = cal_files.json]
            /\ UNCHANGED cal_files
    /\ UNCHANGED holidayRest

NextHoliday ==
    \/ LoadCalendar
    \/ \E fetch \in FetchOutcomes : \E writable \in BOOLEAN : HolidaysSync(fetch, writable)

SpecHoliday == InitHoliday /\ [][NextHoliday]_vars

\* the dates of the sources that are in order
GoodDates(files) ==
    [holidays |-> (IF files.json = "ok" THEN JsonHolidays ELSE IF files.json = "synced" THEN FeedHolidays ELSE {})
                    \cup (IF files.holidays_txt = "ok" THEN TxtHolidays ELSE {}),
     workdays |-> (IF files.json = "ok" THEN JsonWorkdays ELSE IF files.json = "synced" THEN FeedWorkdays ELSE {})
                    \cup (IF files.workdays_txt = "ok" THEN TxtWorkdays ELSE {})]

\* C18: a failed fetch of the holiday feed leaves calendar.json as it was and
\* ends in the redirect, no error; and load_calendar returns, whatever the
\* condition of its sources (missing, unreadable, malformed), sets that hold
\* the dates of the sources in order and no date of another origin, so that
\* workday_range of the week is computed.
C18_CalendarFailuresAbsorbed ==
    /\ (hol_call.op = "holidays_sync" /\ hol_call.fetch \in FetchFailures) =>
          hol_call.outcome = "redirect" /\ cal_files.json = hol_call.before
    /\ hol_call.op = "load_calendar" =>
          /\ hol_call.outcome = "returned"
          /\ GoodDates(cal_files).holidays \subseteq hol_call.holidays
          /\ hol_call.holidays \subseteq JsonHolidays \cup FeedHolidays \cup TxtHolidays
          /\ GoodDates(cal_files).workdays \subseteq hol_call.workdays
          /\ hol_call.workdays \subseteq JsonWorkdays \cup FeedWorkdays \cup TxtWorkdays
          /\ hol_call.range = workday_range(CalWeekStart, CalWeekEnd, hol_call.holidays, hol_call.workdays)


----------------------------------------------------------------------------
(* The periods ensure_period creates, over the days around the turn of a year
   and around a leap day *)

\* the days of each window, the rows the table holds at most, and the Mondays
\* the windows begin with:
\* 2020-12-21 (2020 has 53 ISO weeks), 2024-12-23 (2024-12-30 is in week 1
\* of 2025), 2024-02-26 (the week of the leap day)
CalendarDays == 14
CalendarRows == 2
CalendarAnchors == { Ymd2Ord(2020, 12, 21), Ymd2Ord(2024, 12, 23), Ymd2Ord(2024, 2, 26) }
CalendarDates == { a + i : a \in CalendarAnchors, i \in 0..(CalendarDays - 1) }

NoCalCall == [op |-> "none", for_date |-> NoDate, id |-> 0, created |-> FALSE]

InitCalendar ==
    /\ PeriodUnused /\ WorkdayUnused /\ HoursUnused
    /\ PlanUnused /\ TemplateUnused /\ SchedUnused /\ HolidayUnused
    /\ cal_call = NoCalCall

\* crud.ensure_period(db, for_date) of one request, from the select to the return
EnsurePeriod(for_date) ==
    LET w == iso_week_period(for_date)
        found == Lookup(week_period, w[1], w[2])
    IN /\ IF found /= {}
          THEN LET existing == FirstRow(found)
               IN /\ week_period' = (week_period \ {existing}) \cup
                                        { [existing EXCEPT !.month = AnchorMonth(w[3])] }
                  /\ cal_call' = [op |-> "ensure_period", for_date |-> for_date,
                                  id |-> existing.id, created |-> FALSE]
          ELSE /\ Cardinality(week_period) < CalendarRows
               /\ week_period' = week_period \cup { PeriodRow(NextId(week_period), for_date) }
               /\ cal_call' = [op |-> "ensure_period", for_date |-> for_date,
                               id |-> NextId(week_period), created |-> TRUE]
       /\ UNCHANGED <<proc, returned, calls, workdayVars, hoursVars, planVars, templateVars,
                      schedVars, holidayVars>>

NextCalendar == \E for_date \in CalendarDates : EnsurePeriod(for_date)

SpecCalendar == InitCalendar /\ [][NextCalendar]_vars

\* ISO 8601: a week belongs to the year of its Thursday and is numbered by
\* the Thursdays of that year
IsoYearOf(d) == Ord2Year(MondayOf(d) + 3)
IsoWeekOf(d) == ((MondayOf(d) + 3 - Ymd2Ord(IsoYearOf(d), 1, 1)) \div 7) + 1

\* C20: every period ensure_period(d) creates begins on a Monday and ends on
\* the Sunday six days later, holds d, and has the ISO 8601 year and week of d
\* as (year, week_no); the seven dates of an ISO week map to the same
\* (year, week_no, start_date, end_date), and dates of different ISO weeks to
\* different (year, week_no).
C20_PeriodIsIsoWeek ==
    /\ \A row \in week_period :
          /\ IsoWeekday(row.start_date) = 1
          /\ row.end_date = row.start_date + 6
          /\ IsoWeekday(row.end_date) = 7
          /\ row.year = IsoYearOf(row.start_date)
          /\ row.week_no = IsoWeekOf(row.start_date)
    /\ \A r1, r2 \in week_period :
          (r1.year = r2.year /\ r1.week_no = r2.week_no) <=> r1.start_date = r2.start_date
    /\ cal_call.op = "ensure_period" =>
          LET d == cal_call.for_date
              row == RowById(week_period, cal_call.id)
          IN /\ row.start_date <= d /\ d <= row.end_date
             /\ row.year = IsoYearOf(d)
             /\ row.week_no = IsoWeekOf(d)
             /\ \A e \in row.start_date..row.end_date :
                   iso_week_period(e) = <<row.year, row.week_no, row.start_date, row.end_date>>
             /\ \A e \in CalendarDates :
                   MondayOf(e) /= MondayOf(d) =>
                       <<iso_week_period(e)[1], iso_week_period(e)[2]>> /= <<row.year, row.week_no>>

\* ensure_period(2021-01-03), a Sunday, has created week 53 of 2020, and the
\* table holds week 1 of 2025, which begins on 2024-12-30
C20_Witness ==
    /\ cal_call.op = "ensure_period"
    /\ cal_call.created
    /\ cal_call.for_date = Ymd2Ord(2021, 1, 3)
    /\ LET row == RowById(week_period, cal_call.id)
       IN /\ row.year = 2020 /\ row.week_no = 53
          /\ row.start_date = Ymd2Ord(2020, 12, 28)
    /\ \E row \in week_period :
          row.year = 2025 /\ row.week_no = 1 /\ row.start_date = Ymd2Ord(2024, 12, 30)


----------------------------------------------------------------------------
(* The week within the month: utils.week_in_month, utils.week_in_month_for_period *)

\* week_in_month(monday): (monday.day - 1) // 7 + 1
week_in_month(day) == ((Ord2Day(day) - 1) \div 7) + 1

\* a week_in_month_for_period that would count from the Monday itself
week_in_month_of_monday(monday) == week_in_month(monday)

\* week_in_month_for_period(monday): week_in_month of the Thursday
week_in_month_for_period(monday) ==
    LET anchor == monday + 3
    IN week_in_month(anchor)

\* the days asked for: 2024-01-01 and the days after it, through January (31
\* days), February (29) and March
MonthWindowDays == 91
MonthWindowDates == { Ymd2Ord(2024, 1, 1) + i : i \in 0..(MonthWindowDays - 1) }

InitWeekInMonth ==
    /\ PeriodUnused /\ WorkdayUnused /\ HoursUnused
    /\ PlanUnused /\ TemplateUnused /\ SchedUnused /\ HolidayUnused
    /\ \E d \in MonthWindowDates : cal_call = [op |-> "none", for_date |-> d, value |-> 0]

weekInMonthRest == <<periodVars, workdayVars, hoursVars, planVars, templateVars, schedVars, holidayVars>>

\* week_in_month of the date
CallWeekInMonth ==
    /\ cal_call' = [cal_call EXCEPT !.op = "week_in_month", !.value = week_in_month(cal_call.for_date)]
    /\ UNCHANGED weekInMonthRest

\* exporter / emailer: week_in_month_for_period(period.start_date), a Monday
CallWeekInMonthForPeriod ==
    /\ IsoWeekday(cal_call.for_date) = 1
    /\ cal_call' = [cal_call EXCEPT !.op = "week_in_month_for_period",
                                    !.value = week_in_month_for_period(cal_call.for_date)]
    /\ UNCHANGED weekInMonthRest

NextWeekInMonth ==
    \/ CallWeekInMonth
    \/ CallWeekInMonthForPeriod

SpecWeekInMonth == InitWeekInMonth /\ [][NextWeekInMonth]_vars

\* the bucket of seven days a day of the month lies in, counted from the 1st
DayBucket(day_of_month) ==
    CHOOSE b \in 1..5 : 7 * (b - 1) < day_of_month /\ day_of_month <= 7 * b

\* C21: week_in_month(day) is 1 for the days 1..7 of a month, 2 for 8..14,
\* 3 for 15..21, 4 for 22..28 and 5 for 29..31; week_in_month_for_period(monday)
\* is that number for monday + 3 days, the Thursday, not for the Monday.
C21_WeekInMonth ==
    /\ cal_call.op = "week_in_month" =>
          /\ cal_call.value = DayBucket(Ord2Day(cal_call.for_date))
          /\ (Ord2Day(cal_call.for_date) >= 29) = (cal_call.value = 5)
    /\ cal_call.op = "week_in_month_for_period" =>
          cal_call.value = DayBucket(Ord2Day(cal_call.for_date + 3))

\* Monday 2024-01-29: its Thursday is February 1st, week 1, while the Monday
\* itself is in the fifth bucket of January
C21_Witness ==
    /\ cal_call.op = "week_in_month_for_period"
    /\ cal_call.for_date = Ymd2Ord(2024, 1, 29)
    /\ cal_call.value = 1
    /\ DayBucket(Ord2Day(cal_call.for_date)) = 5


----------------------------------------------------------------------------
(* The team page: web.team_view folds the statistics of the period's plans
   into one card per team *)

\* User.team_id of the users 1..3, and the enabled teams
UserTeam == <<1, 1, 2>>
Teams == {1, 2}
TeamUserIds == DOMAIN UserTeam

Max(a, b) == IF a >= b THEN a ELSE b

\* the ids of a set of plans as the list handed to get_plan_item_stats
RECURSIVE PlanIdList(_)
PlanIdList(plans) ==
    IF plans = {} THEN <<>>
    ELSE LET p == FirstRow(plans) IN <<p.id>> \o PlanIdList(plans \ {p})

\* stats.get(p.id) or {}, then s.get(key, 0) or 0
StatOf(stats, plan_id, key) ==
    IF plan_id \in DOMAIN stats THEN stats[plan_id][key] ELSE 0

\* the loop over team_plans (lines 597-604): registered_cnt, est_sum, act_sum
RECURSIVE TeamFold(_, _, _)
TeamFold(acc, team_plans, stats) ==
    IF team_plans = {} THEN acc
    ELSE LET p == FirstRow(team_plans)
         IN TeamFold([registered_cnt |-> acc.registered_cnt +
                                           (IF StatOf(stats, p.id, "items") > 0 THEN 1 ELSE 0),
                      est_sum |-> acc.est_sum + StatOf(stats, p.id, "estimated"),
                      act_sum |-> acc.act_sum + StatOf(stats, p.id, "actual")],
                     team_plans \ {p}, stats)

\* a card that would count as missing the members without an item
TeamCardMissingByItems(team_users, team_plans, stats) ==
    LET with_items == { p.owner_user_id : p \in { q \in team_plans : StatOf(stats, q.id, "items") > 0 } }
        fold == TeamFold([registered_cnt |-> 0, est_sum |-> 0, act_sum |-> 0], team_plans, stats)
    IN [user_cnt |-> Cardinality(team_users),
        registered_cnt |-> fold.registered_cnt,
        missing_cnt |-> Max(Cardinality(team_users) - Cardinality(with_items), 0),
        estimated_sum |-> Round1(fold.est_sum),
        actual_sum |-> Round1(fold.act_sum)]

\* the card of one team (lines 591-615)
TeamCard(team_users, team_plans, stats) ==
    LET user_cnt == Cardinality(team_users)
        planned_user_ids == { p.owner_user_id : p \in team_plans }
        fold == TeamFold([registered_cnt |-> 0, est_sum |-> 0, act_sum |-> 0], team_plans, stats)
    IN [user_cnt |-> user_cnt,
        registered_cnt |-> fold.registered_cnt,
        missing_cnt |-> Max(user_cnt - Cardinality(planned_user_ids), 0),
        estimated_sum |-> Round1(fold.est_sum),
        actual_sum |-> Round1(fold.act_sum)]

\* team_cards of web.team_view for the period
team_cards(plans, items, period_id) ==
    LET period_plans == { p \in plans : p.period_id = period_id /\ UserTeam[p.owner_user_id] \in Teams }
        stats == get_plan_item_stats(LoadItems(items), PlanIdList(period_plans))
    IN [t \in Teams |->
           TeamCard({ u \in TeamUserIds : UserTeam[u] = t },
                    { p \in period_plans : UserTeam[p.owner_user_id] = t },
                    stats)]

\* the period of the page exists; no plan yet
InitTeam ==
    /\ week_period = { PeriodRow(1, Ymd2Ord(2024, 2, 1)) }
    /\ proc = [p \in Procs |-> Idle]
    /\ returned = [d \in PeriodDates |-> {}]
    /\ calls = 0
    /\ wd_call = NoWorkdayCall
    /\ weekly_plan = {}
    /\ plan_item = {}
    /\ hours_call = NoHoursCall
    /\ ExtUnused

\* web.team_view for the week of period 1
TeamView ==
    /\ hours_call' = [op |-> "team_view", arg |-> 1, value |-> team_cards(weekly_plan, plan_item, 1)]
    /\ UNCHANGED <<periodVars, workdayVars, weekly_plan, plan_item, extVars>>

NextTeam ==
    \/ \E owner \in TeamUserIds : EnsureWeeklyPlan(1, owner)
    \/ \E plan_id \in PlanIdArgs : \E e \in EstHours : AddItem(plan_id, e)
    \/ \E item_id \in ItemIdArgs : DeleteItem(item_id)
    \/ TeamView

SpecTeam == InitTeam /\ [][NextTeam]_vars

\* the members of a team, those with a plan row for period 1 and those with
\* an item in it
MembersOf(t) == { u \in TeamUserIds : UserTeam[u] = t }
MembersWithPlan(t) ==
    { u \in MembersOf(t) : \E p \in weekly_plan : p.owner_user_id = u /\ p.period_id = 1 }
MembersWithItem(t) ==
    { u \in MembersOf(t) :
        \E p \in weekly_plan : /\ p.owner_user_id = u /\ p.period_id = 1
                               /\ \E it \in plan_item : it.plan_id = p.id }

\* C23: in the card of a team, registered_cnt is the number of members with
\* an item registered in the period and missing_cnt the number of members
\* with no item in it, so the two add up to the number of members.
C23_MissingIsWithoutItems ==
    hours_call.op = "team_view" =>
        \A t \in Teams :
            LET card == hours_call.value[t]
            IN /\ card.registered_cnt = Cardinality(MembersWithItem(t))
               /\ card.missing_cnt = Cardinality(MembersOf(t) \ MembersWithItem(t))
               /\ card.registered_cnt + card.missing_cnt = Cardinality(MembersOf(t))

\* C24: missing_cnt is the number of members less the number of distinct
\* members of the team that own a plan row of the period, and never below 0;
\* a member whose plan has no item is not missing and is not registered.
C24_MissingIsWithoutPlan ==
    hours_call.op = "team_view" =>
        \A t \in Teams :
            LET card == hours_call.value[t]
            IN /\ card.user_cnt = Cardinality(MembersOf(t))
               /\ card.missing_cnt = Max(card.user_cnt - Cardinality(MembersWithPlan(t)), 0)
               /\ card.missing_cnt >= 0
               /\ card.registered_cnt = Cardinality(MembersWithItem(t))
               /\ card.missing_cnt + card.registered_cnt
                      = card.user_cnt - Cardinality(MembersWithPlan(t) \ MembersWithItem(t))

\* team 1 of two members: user 1 has a plan without items, user 2 has no
\* plan; one member is missing, nobody is registered
C24_Witness ==
    /\ hours_call.op = "team_view"
    /\ MembersWithPlan(1) = {1}
    /\ MembersWithItem(1) = {}
    /\ hours_call.value[1].user_cnt = 2
    /\ hours_call.value[1].missing_cnt = 1
    /\ hours_call.value[1].registered_cnt = 0


----------------------------------------------------------------------------
(* The requests that write plans and items: web.add_item, web.update_item,
   web.delete_item, web.submit_plan and api.replace_details, each with the
   checks it makes of the user of the session *)

\* User.role of the users 1..3; a request without a valid session has user 0
UserRole == << "user", "user", "admin" >>
SessionUsers == {0} \cup DOMAIN UserRole

\* models.py:75, schemas.py:54
PlanStatuses == { "draft", "submitted", "approved", "rejected" }

\* payloads of replace_details sent by the plan page
WebDetailInputs == { <<>>, << D("a", H(100)) >> }

\* the requests that change an item that exists
ItemWriteOps == { "update_item", "delete_item", "replace_details" }

\* the last request: handler, user of the session, and the HTTP status
WebCall(op, user, status_code) ==
    [op |-> op, arg |-> user, value |-> status_code]

\* _require_user, crud.get_plan and the owner check of the handlers of web:
\* 401 without session, 404 without the plan, 403 for a plan of another user
PlanCheck(user, plan_id) ==
    IF user \notin DOMAIN UserRole THEN 401
    ELSE IF ~ \E plan \in weekly_plan : plan.id = plan_id THEN 404
    ELSE IF UserRole[user] /= "admin"
            /\ (CHOOSE plan \in weekly_plan : plan.id = plan_id).owner_user_id /= user THEN 403
    ELSE 200

InitWeb ==
    /\ week_period = { PeriodRow(1, Ymd2Ord(2024, 2, 1)) }
    /\ proc = [p \in Procs |-> Idle]
    /\ returned = [d \in PeriodDates |-> {}]
    /\ calls = 0
    /\ wd_call = NoWorkdayCall
    /\ weekly_plan = {}
    /\ plan_item = {}
    /\ hours_call = NoHoursCall
    /\ ExtUnused

webRest == <<periodVars, workdayVars, extVars>>

\* POST /plans/{plan_id}/items
WebAddItem(user, plan_id, estimated_hours) ==
    /\ NextId(plan_item) <= MaxItems
    /\ LET check == PlanCheck(user, plan_id)
       IN IF check /= 200
          THEN /\ hours_call' = WebCall("add_item", user, check)
               /\ UNCHANGED plan_item
          ELSE /\ plan_item' = plan_item \cup
                     { [id |-> NextId(plan_item), plan_id |-> plan_id,
                        estimated_hours |-> estimated_hours, details |-> <<>>] }
               /\ hours_call' = WebCall("add_item", user, 302)
    /\ UNCHANGED <<webRest, weekly_plan>>

\* POST /items/{item_id}/update with the form field plan_id
WebUpdateItem(user, item_id, plan_id, estimated_hours) ==
    /\ LET check == PlanCheck(user, plan_id)
       IN IF check /= 200
          THEN /\ hours_call' = WebCall("update_item", user, check)
               /\ UNCHANGED plan_item
          ELSE IF ~ \E it \in plan_item : it.id = item_id
          THEN /\ hours_call' = WebCall("update_item", user, 404)
               /\ UNCHANGED plan_item
          ELSE /\ plan_item' = { IF it.id = item_id
                                 THEN [it EXCEPT !.estimated_hours = estimated_hours] ELSE it :
                                 it \in plan_item }
               /\ hours_call' = WebCall("update_item", user, 302)
    /\ UNCHANGED <<webRest, weekly_plan>>

\* POST /items/{item_id}/delete with the form field plan_id
WebDeleteItem(user, item_id, plan_id) ==
    /\ LET check == PlanCheck(user, plan_id)
       IN IF check /= 200
          THEN /\ hours_call' = WebCall("delete_item", user, check)
               /\ UNCHANGED plan_item
          ELSE /\ plan_item' = { it \in plan_item : it.id /= item_id }
               /\ hours_call' = WebCall("delete_item", user, 302)
    /\ UNCHANGED <<webRest, weekly_plan>>

\* POST /api/items/{item_id}/details/replace
ApiReplaceDetails(user, item_id, payload) ==
    /\ IF user \notin DOMAIN UserRole
       THEN /\ hours_call' = WebCall("replace_details", user, 401)
            /\ UNCHANGED plan_item
       ELSE /\ plan_item' = { IF it.id = item_id
                              THEN [it EXCEPT !.details = KeptDetails(payload, 1)] ELSE it :
                              it \in plan_item }
            /\ hours_call' = WebCall("replace_details", user, 200)
    /\ UNCHANGED <<webRest, weekly_plan>>

\* a submit that would take the status from the request
WebSubmitPlanAsDone(user, plan_id) ==
    /\ PlanCheck(user, plan_id) = 200
    /\ weekly_plan' = { IF plan.id = plan_id THEN [plan EXCEPT !.status = "done"] ELSE plan :
                        plan \in weekly_plan }
    /\ hours_call' = WebCall("submit_plan", user, 302)
    /\ UNCHANGED <<webRest, plan_item>>

\* POST /plans/{plan_id}/submit -> crud.set_plan_status(db, plan_id=, status="submitted")
WebSubmitPlan(user, plan_id) ==
    /\ LET check == PlanCheck(user, plan_id)
       IN IF check /= 200
          THEN /\ hours_call' = WebCall("submit_plan", user, check)
               /\ UNCHANGED weekly_plan
          ELSE /\ weekly_plan' = { IF plan.id = plan_id THEN [plan EXCEPT !.status = "submitted"]
                                   ELSE plan : plan \in weekly_plan }
               /\ hours_call' = WebCall("submit_plan", user, 302)
    /\ UNCHANGED <<webRest, plan_item>>

NextWeb ==
    \/ \E owner \in PlanOwners : EnsureWeeklyPlan(1, owner)
    \/ \E user \in SessionUsers : \E plan_id \in PlanIdArgs : \E e \in EstHours :
          WebAddItem(user, plan_id, e)
    \/ \E user \in SessionUsers : \E item_id \in ItemIdArgs : \E plan_id \in PlanIdArgs : \E e \in EstHours :
          WebUpdateItem(user, item_id, plan_id, e)
    \/ \E user \in SessionUsers : \E item_id \in ItemIdArgs : \E plan_id \in PlanIdArgs :
          WebDeleteItem(user, item_id, plan_id)
    \/ \E user \in SessionUsers : \E item_id \in ItemIdArgs : \E payload \in WebDetailInputs :
          ApiReplaceDetails(user, item_id, payload)

SpecWeb == InitWeb /\ [][NextWeb]_vars

\* the requests that create a plan or set its status: the plan page of a
\* user (crud.ensure_weekly_plan gives the draft) and the submit
NextStatus ==
    \/ \E owner \in DOMAIN UserRole : EnsureWeeklyPlan(1, owner)
    \/ \E user \in SessionUsers : \E plan_id \in DOMAIN UserRole \cup {0} : WebSubmitPlan(user, plan_id)

SpecStatus == InitWeb /\ [][NextStatus]_vars

\* C26: every plan has a status of draft, submitted, approved, rejected: a
\* plan is created as draft and no request gives it a status outside the set.
C26_StatusInSet ==
    \A plan \in weekly_plan : plan.status \in PlanStatuses

\* user 1 has submitted their plan, the plan of user 2 is a draft
C26_Witness ==
    /\ hours_call.op = "submit_plan"
    /\ hours_call.value = 302
    /\ \E plan \in weekly_plan : plan.owner_user_id = 1 /\ plan.status = "submitted"
    /\ \E plan \in weekly_plan : plan.owner_user_id = 2 /\ plan.status = "draft"

\* the owner of the plan an item belongs to
ItemOwner(it) == (CHOOSE plan \in weekly_plan : plan.id = it.plan_id).owner_user_id

\* C27: a request of a user who is not an admin that updates or deletes an
\* item, or replaces its details, leaves every item of the plans of other
\* users as it was.
C27_OwnItemsOnly ==
    [][ (/\ hours_call'.op \in ItemWriteOps
         /\ hours_call'.arg \in DOMAIN UserRole
         /\ UserRole[hours_call'.arg] /= "admin") =>
           \A it \in plan_item :
               ItemOwner(it) /= hours_call'.arg => it \in plan_item' ]_vars


----------------------------------------------------------------------------
(* The month page: web.my_plans lists the periods of
   crud.ensure_month_periods(year, month) whose month is the month asked for *)

\* requests of the month page per run
MonthCalls == 2

\* the years whose months are asked for: 2020 (leap, 53 ISO weeks) and 2025
\* (its first ISO week begins on Mon 2024-12-30)
BaseYears == { 2020, 2025 }

\* the twelve months of a year and the two neighbouring months
MonthWindow(base) == { <<base - 1, 12>>, <<base + 1, 1>> } \cup { <<base, m>> : m \in 1..12 }

\* lines 343-345: the Monday of the week of the first day, and the last day
FirstMonday(year, month) == MondayOf(Ymd2Ord(year, month, 1))
LastDay(year, month) == Ymd2Ord(year, month, DaysInMonth(year, month))

\* crud.ensure_period(db, for_date) of one request on the rows: the rows
\* after it and the row it returns
ensure_period_rows(rows, for_date) ==
    LET w == iso_week_period(for_date)
        found == Lookup(rows, w[1], w[2])
    IN IF found /= {}
       THEN LET existing == FirstRow(found)
                fixed == [existing EXCEPT !.month = AnchorMonth(w[3])]
            IN [rows |-> (rows \ {existing}) \cup {fixed}, id |-> existing.id]
       ELSE [rows |-> rows \cup { PeriodRow(NextId(rows), for_date) }, id |-> NextId(rows)]

\* lines 346-350: the loop over the Mondays up to last_day; p is the result
\* of the ensure_period of one round
RECURSIVE MonthLoop(_, _, _, _)
MonthLoop(rows, ids, monday, last_day) ==
    IF monday > last_day THEN [rows |-> rows, ids |-> ids]
    ELSE CHOOSE result \in { MonthLoop(p.rows, ids \cup {p.id}, monday + 7, last_day) :
                               p \in { ensure_period_rows(rows, monday) } } : TRUE

\* crud.ensure_month_periods(db, year=, month=): the rows after it and the
\* list it returns, sorted by start_date
ensure_month_periods(rows, year, month) ==
    CHOOSE result \in
        { [rows |-> r.rows,
           periods |-> CHOOSE periods \in
                          { [i \in 1..Len(sorted) |-> RowById(r.rows, sorted[i])] :
                              sorted \in { SortedByStartDate(r.rows, r.ids) } } : TRUE] :
            r \in { MonthLoop(rows, {}, FirstMonday(year, month), LastDay(year, month)) } } : TRUE

\* a page that would list every period of ensure_month_periods
month_periods_unfiltered(month_periods_all, selected_month) == month_periods_all

\* web.py:186: [p for p in month_periods_all if p.month == selected_month]
month_periods(month_periods_all, selected_month) ==
    SelectSeq(month_periods_all, LAMBDA p : p.month = selected_month)

\* the Mondays of the weeks of the window that begin in one month and have
\* their Thursday in the next
StraddlingMondays(base) ==
    { m \in { FirstMonday(ym[1], ym[2]) : ym \in MonthWindow(base) } : Ord2Month(m) /= Ord2Month(m + 3) }

\* the table is empty (2020), or holds the rows of the earlier release for
\* the straddling weeks of the year (2025)
InitMonth ==
    /\ \E base \in BaseYears :
          /\ cal_call = [op |-> "none", base |-> base, year |-> 0, month |-> 0,
                         all |-> <<>>, periods |-> <<>>]
          /\ week_period = IF IsLeap(base) THEN {} ELSE LegacyRows(StraddlingMondays(base))
    /\ proc = [p \in Procs |-> Idle]
    /\ returned = [d \in PeriodDates |-> {}]
    /\ calls = 0
    /\ WorkdayUnused /\ HoursUnused
    /\ PlanUnused /\ TemplateUnused /\ SchedUnused /\ HolidayUnused

\* GET /my?year=&month=
MyPlans(year, month) ==
    /\ calls < MonthCalls
    /\ calls' = calls + 1
    /\ \E r \in { ensure_month_periods(week_period, year, month) } :
          /\ week_period' = r.rows
          /\ cal_call' = [op |-> "my_plans", base |-> cal_call.base, year |-> year, month |-> month,
                          all |-> r.periods, periods |-> month_periods(r.periods, month)]
    /\ UNCHANGED <<proc, returned, workdayVars, hoursVars, planVars, templateVars,
                   schedVars, holidayVars>>

NextMonth == \E ym \in MonthWindow(cal_call.base) : MyPlans(ym[1], ym[2])

SpecMonth == InitMonth /\ [][NextMonth]_vars

\* the Mondays of the ISO weeks whose Thursday is a day of the month
ThursdayWeeksOf(year, month) ==
    { d - 3 : d \in { Ymd2Ord(year, month, k) : k \in 1..DaysInMonth(year, month) } \cap
                    { t \in Ymd2Ord(year, month, 1)..LastDay(year, month) : IsoWeekday(t) = 4 } }

\* the Mondays of the list the page of a month shows on the rows as they are
ListedMondays(year, month) ==
    UNION { { listed[i].start_date : i \in 1..Len(listed) } :
            listed \in { month_periods(ensure_month_periods(week_period, year, month).periods, month) } }

=============================================================================
